---- MODULE Spec2Model ----
(***************************************************************************)
(* A model of the django_mongodb_backend query-compilation layer and its   *)
(* transaction coordinator.                                                *)
(*                                                                         *)
(*  - transaction.py / base.py : Atomic.__enter__, Atomic.__exit__ and the *)
(*    connection's start_transaction_mongo, commit_mongo, rollback_mongo,  *)
(*    on_commit and close_pool (specification SpecTxn);                    *)
(*  - query.py : MongoQuery.get_pipeline (specification SpecPipeline);     *)
(*  - query.py : where_node (specification SpecWhere).                     *)
(***************************************************************************)
EXTENDS Integers, Sequences, FiniteSets, TLC

VARIABLES
    \* ---- DatabaseWrapper (base.py) -------------------------------------
    session,                \* self.session: 0 is None, else the handle
    in_atomic_block_mongo,  \* self.in_atomic_block_mongo
    nested_atomics,         \* self.nested_atomics
    run_on_commit,          \* self.run_on_commit: queued (func, robust)
    connection,             \* self.connection is not None
    \* ---- the driver, as seen through the calls made on it ---------------
    open_txns,              \* sessions with a transaction in progress
    last_session,           \* the handle start_session() returned last
    trace,                  \* driver calls and hook invocations made since
                            \* the outermost atomic() was entered
    \* ---- the caller of the last operation --------------------------------
    raised,                 \* what the last operation raised ("none": returned)
    last_op,                \* the last operation and the state it met
    began_in_NONE,          \* the outermost __enter__ met session None
    pool_closed,            \* close_pool() ran inside the current atomic()
    peak_nested,            \* deepest nesting of the current atomic()
    \* ---- MongoQuery (query.py) -------------------------------------------
    bundle,                 \* the MongoQuery whose pipeline is asked for
    pipeline,               \* what get_pipeline() returned
    pipe_done,              \* get_pipeline() has run
    \* ---- WhereNode (query.py) --------------------------------------------
    node,                   \* the WhereNode being lowered
    as_expr,                \* the as_expr argument
    lowered,                \* what where_node() returned or raised
    where_done,             \* where_node() has run
    \* ---- lookups (lookups.py, base.py operator tables) ------------------
    pred,                   \* the lookup or WhereNode being compiled
    path_mql,               \* its as_mql(as_expr=False)
    expr_mql,               \* its as_mql(as_expr=True)
    \* ---- Join (query.py) -------------------------------------------------
    join_args,              \* the Join, the pushed filter and the rows the lookup finds
    join_out,               \* the lookup_pipeline join() returned
    join_rows,              \* the rows of one outer row after the stages run so far
    join_pos,               \* 0 before join(), then the next stage to run
    \* ---- subqueries (expressions/builtins.py, lookups.py) -----------------
    sub_args,               \* the subquery, its rows and the outer row
    sub_query,              \* the MongoQuery query() registered, and the reference it returned
    sub_pipe,               \* what get_pipeline() of that MongoQuery returned
    sub_docs,               \* the documents in the sub-pipeline, after the stages run so far
    sub_row,                \* the field __subquery0 of the outer row
    sub_pos,                \* 0 before query(), 1 before get_pipeline(), then the step run next
    \* ---- index conditions (indexes.py) -----------------------------------
    idx_where,              \* the condition of the index, as build_where gave it
    idx_mql,                \* what where.as_mql_idx() returned or raised
    idx_done,               \* as_mql_idx() has run
    \* ---- wrap_database_errors (query.py) ---------------------------------
    calls,                  \* the wrapped operations run so far: what the driver did and what the caller saw
    \* ---- outer columns captured by col() (expressions/builtins.py) ------
    column_indices,         \* compiler.column_indices: the outer columns captured, each with its slot
    col_refs,               \* the column references compiled so far and what col() returned
    let_bound,              \* the let of subquery_lookup, once query() built it
    \* ---- the shared pool of clients (base.py) -----------------------------
    _connection_pools,      \* DatabaseWrapper._connection_pools[alias], shared by the threads (0: no entry)
    pc,                     \* where each thread stands in get_new_connection
    conn,                   \* the MongoClient each thread created (0: none)
    returned,               \* what get_new_connection returned to each thread
    pool_clients,             \* the clients ever put into _connection_pools
    deleted,                \* close_pool has deleted the entry
    \* ---- the Case expression (expressions/builtins.py) ---------------------
    case_args,              \* the Case expression to compile: its cases and its default
    case_mql,               \* what case() returned
    case_done               \* case() has run

txnVars == <<session, in_atomic_block_mongo, nested_atomics, run_on_commit,
             connection, open_txns, last_session, trace, raised, last_op,
             began_in_NONE, pool_closed, peak_nested>>
pipeVars == <<bundle, pipeline, pipe_done>>
whereVars == <<node, as_expr, lowered, where_done>>
lookupVars == <<pred, path_mql, expr_mql>>
joinVars == <<join_args, join_out, join_rows, join_pos>>
subqueryVars == <<sub_args, sub_query, sub_pipe, sub_docs, sub_row, sub_pos>>
indexVars == <<idx_where, idx_mql, idx_done>>
errorVars == <<calls>>
captureVars == <<column_indices, col_refs, let_bound>>
poolVars == <<_connection_pools, pc, conn, returned, pool_clients, deleted>>
caseVars == <<case_args, case_mql, case_done>>
vars == <<txnVars, pipeVars, whereVars, lookupVars, joinVars, subqueryVars, indexVars, errorVars, captureVars, poolVars, caseVars>>

(***************************************************************************)
(* Bounds of the model.                                                    *)
(***************************************************************************)
\* deepest nested_atomics the model enters
MaxDepth == 2
\* commit hooks alive (queued, or run since the outermost __enter__)
MaxHooks == 2
\* session handles the driver hands out before reusing a name
MaxSessionId == 2
\* largest low_mark / high_mark of a query
MaxMark == 2
\* most subqueries registered on one compiler
MaxSubqueries == 2
\* most children of a WhereNode whose children are all leaves
MaxChildren == 4
\* most leaves of a WhereNode that has WhereNodes among its children
MaxLeaves == 3
\* largest number stored in a field or given to a lookup
MaxValue == 1
\* most pairs of joining fields of a join
MaxPairs == 2
\* most rows of the joined collection a lookup finds for one outer row
MaxMatches == 2
\* most rows a subquery returns
MaxRows == 2
\* most wrapped operations a caller runs
MaxCalls == 3
\* most column references of one compile pass
MaxRefs == 3
\* threads that ask for a connection of the same alias
MaxThreads == 3
\* most When branches of a Case expression
MaxCases == 4

(***************************************************************************)
(* Transaction coordinator.                                                *)
(***************************************************************************)
\* What a commit hook does when called.
HookBehaviours == {"ok", "DatabaseError", "Exception"}

Ev(e, i, ok) == [ev |-> e, id |-> i, ok |-> ok]

\* The connection object as one value, for the methods below.
Conn ==
    [session |-> session,
     in_atomic_block_mongo |-> in_atomic_block_mongo,
     nested_atomics |-> nested_atomics,
     run_on_commit |-> run_on_commit,
     connection |-> connection,
     open_txns |-> open_txns,
     last_session |-> last_session,
     trace |-> trace,
     raised |-> "none"]

\* The handle the driver's start_session() returns: never the previous one.
NewSession(c) == IF c.last_session >= MaxSessionId THEN 1 ELSE c.last_session + 1

\* DatabaseWrapper.__init__, with the other components idle
InitTxn ==
    /\ session = 0
    /\ in_atomic_block_mongo = FALSE
    /\ nested_atomics = 0
    /\ run_on_commit = <<>>
    /\ connection = FALSE
    /\ open_txns = {}
    /\ last_session = 0
    /\ trace = <<>>
    /\ raised = "none"
    /\ last_op = [op |-> "init", depth |-> -1, exc |-> FALSE, had_session |-> FALSE,
                  queued |-> <<>>]
    /\ began_in_NONE = FALSE
    /\ pool_closed = FALSE
    /\ peak_nested = 0
    /\ case_args = 0 /\ case_mql = 0 /\ case_done = FALSE
    /\ _connection_pools = 0 /\ pc = 0 /\ conn = 0 /\ returned = 0 /\ pool_clients = {} /\ deleted = FALSE
    /\ column_indices = {} /\ col_refs = <<>> /\ let_bound = 0
    /\ calls = <<>>
    /\ idx_where = 0 /\ idx_mql = 0 /\ idx_done = FALSE
    /\ sub_args = 0 /\ sub_query = 0 /\ sub_pipe = <<>> /\ sub_docs = <<>> /\ sub_row = 0 /\ sub_pos = 0
    /\ join_args = 0 /\ join_out = <<>> /\ join_rows = <<>> /\ join_pos = 0
    /\ pred = 0 /\ path_mql = 0 /\ expr_mql = 0
    /\ bundle = 0 /\ pipeline = <<>> /\ pipe_done = FALSE
    /\ node = 0 /\ as_expr = FALSE /\ lowered = 0 /\ where_done = FALSE

\* DatabaseWrapper._end_session
_end_session(c) ==
    [c EXCEPT !.trace = Append(@, Ev("end_session", c.session, TRUE)),
              !.open_txns = @ \ {c.session},
              !.session = 0]

\* DatabaseWrapper.start_transaction_mongo
start_transaction_mongo(c) ==
    IF c.session = 0
    THEN LET s == NewSession(c)
         IN [c EXCEPT !.connection = TRUE,
                      !.session = s,
                      !.last_session = s,
                      !.open_txns = @ \cup {s},
                      !.trace = @ \o <<Ev("start_session", s, TRUE),
                                       Ev("start_transaction", s, TRUE)>>]
    ELSE c

\* BaseDatabaseWrapper.run_and_clear_commit_hooks, called by commit_mongo:
\* the queue is emptied, then each hook is called in order; a robust hook's
\* exception is logged, any other hook's exception ends the loop and propagates.
RECURSIVE RunHooks(_, _)
RunHooks(c, q) ==
    IF q = <<>>
    THEN c
    ELSE LET h == Head(q)
             c1 == [c EXCEPT !.trace = Append(@, Ev("hook", h.id, h.beh = "ok"))]
         IN IF h.beh = "ok" \/ h.robust
            THEN RunHooks(c1, Tail(q))
            ELSE [c1 EXCEPT !.raised = h.beh]

run_and_clear_commit_hooks(c) ==
    RunHooks([c EXCEPT !.run_on_commit = <<>>], c.run_on_commit)

\* A commit_mongo that runs the hooks before it commits.
commit_mongo_HooksFirst(c, commit_ok) ==
    LET c0 == run_and_clear_commit_hooks(c)
    IN IF c0.session # 0 /\ c0.raised = "none"
       THEN LET c1 == [c0 EXCEPT !.trace =
                        Append(@, Ev("commit_transaction", c.session, commit_ok))]
            IN IF commit_ok
               THEN _end_session([c1 EXCEPT !.open_txns = @ \ {c.session}])
               ELSE [c1 EXCEPT !.raised = "PyMongoError"]
       ELSE c0

\* DatabaseWrapper.commit_mongo; commit_ok: session.commit_transaction()
\* returned (TRUE) or raised a driver error, a PyMongoError (FALSE).
commit_mongo(c, commit_ok) ==
    IF c.session # 0
    THEN LET c1 == [c EXCEPT !.trace =
                        Append(@, Ev("commit_transaction", c.session, commit_ok))]
         IN IF commit_ok
            THEN run_and_clear_commit_hooks(
                     _end_session([c1 EXCEPT !.open_txns = @ \ {c.session}]))
            ELSE [c1 EXCEPT !.raised = "PyMongoError"]
    ELSE run_and_clear_commit_hooks(c)

\* DatabaseWrapper.rollback_mongo
rollback_mongo(c) ==
    LET c1 == IF c.session # 0
              THEN _end_session(
                       [c EXCEPT !.trace =
                            Append(@, Ev("abort_transaction", c.session, TRUE)),
                                 !.open_txns = @ \ {c.session}])
              ELSE c
    IN [c1 EXCEPT !.run_on_commit = <<>>]

\* A nested atomic() that opens a session and a transaction of its own.
Atomic__enter__Restart(c) ==
    IF c.in_atomic_block_mongo
    THEN [start_transaction_mongo([c EXCEPT !.session = 0])
              EXCEPT !.nested_atomics = @ + 1]
    ELSE [start_transaction_mongo(c) EXCEPT !.in_atomic_block_mongo = TRUE]

\* Atomic.__enter__
Atomic__enter__(c) ==
    IF c.in_atomic_block_mongo
    THEN [c EXCEPT !.nested_atomics = @ + 1]
    ELSE [start_transaction_mongo(c) EXCEPT !.in_atomic_block_mongo = TRUE]

\* An __exit__ that rolls back whenever the block raised, nested or not.
Atomic__exit__RollbackInner(c, exc, commit_ok) ==
    LET c1 == IF c.nested_atomics # 0
              THEN [c EXCEPT !.nested_atomics = @ - 1]
              ELSE [c EXCEPT !.in_atomic_block_mongo = FALSE]
    IN IF ~exc
       THEN IF ~c1.in_atomic_block_mongo
            THEN LET c2 == commit_mongo(c1, commit_ok)
                 IN IF c2.raised = "DatabaseError"
                    THEN rollback_mongo([c2 EXCEPT !.raised = "none"])
                    ELSE c2
            ELSE c1
       ELSE rollback_mongo(c1)

\* An __exit__ that takes any failure of the commit for a reason to roll back
\* and return.
Atomic__exit__CatchAll(c, exc, commit_ok) ==
    LET c1 == IF c.nested_atomics # 0
              THEN [c EXCEPT !.nested_atomics = @ - 1]
              ELSE [c EXCEPT !.in_atomic_block_mongo = FALSE]
    IN IF ~exc
       THEN IF ~c1.in_atomic_block_mongo
            THEN LET c2 == commit_mongo(c1, commit_ok)
                 IN IF c2.raised # "none"
                    THEN rollback_mongo([c2 EXCEPT !.raised = "none"])
                    ELSE c2
            ELSE c1
       ELSE IF ~c1.in_atomic_block_mongo
            THEN rollback_mongo(c1)
            ELSE c1

\* Atomic.__exit__; exc: exc_type is not None
Atomic__exit__(c, exc, commit_ok) ==
    LET c1 == IF c.nested_atomics # 0
              THEN [c EXCEPT !.nested_atomics = @ - 1]
              ELSE [c EXCEPT !.in_atomic_block_mongo = FALSE]
    IN IF ~exc
       THEN IF ~c1.in_atomic_block_mongo
            THEN LET c2 == commit_mongo(c1, commit_ok)
                 IN IF c2.raised = "DatabaseError"
                    THEN rollback_mongo([c2 EXCEPT !.raised = "none"])
                    ELSE c2
            ELSE c1
       ELSE IF ~c1.in_atomic_block_mongo
            THEN rollback_mongo(c1)
            ELSE c1

\* An on_commit that tests the nesting counter instead of the flag.
on_commit_TestsCounter(c, is_callable, h) ==
    IF ~is_callable
    THEN [c EXCEPT !.raised = "TypeError"]
    ELSE IF c.nested_atomics # 0
         THEN [c EXCEPT !.run_on_commit = Append(@, h)]
         ELSE LET c1 == [c EXCEPT !.trace = Append(@, Ev("hook", h.id, h.beh = "ok"))]
              IN IF h.robust \/ h.beh = "ok"
                 THEN c1
                 ELSE [c1 EXCEPT !.raised = h.beh]

\* DatabaseWrapper.on_commit; h: the hook, with the name the trace knows it by
on_commit(c, is_callable, h) ==
    IF ~is_callable
    THEN [c EXCEPT !.raised = "TypeError"]
    ELSE IF c.in_atomic_block_mongo
         THEN [c EXCEPT !.run_on_commit = Append(@, h)]
         ELSE LET c1 == [c EXCEPT !.trace = Append(@, Ev("hook", h.id, h.beh = "ok"))]
              IN IF h.robust \/ h.beh = "ok"
                 THEN c1
                 ELSE [c1 EXCEPT !.raised = h.beh]

\* DatabaseWrapper.close_pool
close_pool(c) ==
    LET c1 == [c EXCEPT !.run_on_commit = <<>>]
        c2 == IF c1.session # 0 THEN _end_session(c1) ELSE c1
    IN IF ~c2.connection THEN c2 ELSE [c2 EXCEPT !.connection = FALSE]

\* The connection's fields after a method returned c.
Assign(c) ==
    /\ session' = c.session
    /\ in_atomic_block_mongo' = c.in_atomic_block_mongo
    /\ nested_atomics' = c.nested_atomics
    /\ run_on_commit' = c.run_on_commit
    /\ connection' = c.connection
    /\ open_txns' = c.open_txns
    /\ last_session' = c.last_session
    /\ trace' = c.trace
    /\ raised' = c.raised

\* -1 in state NONE, else the n of ACTIVE(n)
Depth == IF in_atomic_block_mongo THEN nested_atomics ELSE -1

Met(op, exc) ==
    [op |-> op, depth |-> Depth, exc |-> exc, had_session |-> session # 0,
     queued |-> run_on_commit]

HookIds(q) == {q[i].id : i \in DOMAIN q}
UsedHookIds == HookIds(run_on_commit) \cup {trace[i].id : i \in {j \in DOMAIN trace : trace[j].ev = "hook"}}
FreeHookIds == (1..MaxHooks) \ UsedHookIds

\* with atomic(): entered
Begin ==
    /\ in_atomic_block_mongo => nested_atomics < MaxDepth
    /\ LET c0 == IF in_atomic_block_mongo THEN Conn ELSE [Conn EXCEPT !.trace = <<>>]
       IN Assign(Atomic__enter__(c0))
    /\ last_op' = Met("begin", FALSE)
    /\ began_in_NONE' = IF in_atomic_block_mongo THEN began_in_NONE ELSE session = 0
    /\ pool_closed' = IF in_atomic_block_mongo THEN pool_closed ELSE FALSE
    /\ peak_nested' = IF in_atomic_block_mongo THEN
                          IF nested_atomics + 1 > peak_nested
                          THEN nested_atomics + 1 ELSE peak_nested
                      ELSE 0
    /\ UNCHANGED <<pipeVars, whereVars, lookupVars, joinVars, subqueryVars, indexVars, errorVars, captureVars, poolVars, caseVars>>

\* with atomic(): left, normally (exc = FALSE) or by an exception
End ==
    /\ in_atomic_block_mongo
    /\ \E exc \in BOOLEAN :
       \E commit_ok \in (IF ~exc /\ nested_atomics = 0 /\ session # 0
                         THEN BOOLEAN ELSE {TRUE}) :
          /\ Assign(Atomic__exit__(Conn, exc, commit_ok))
          /\ last_op' = Met("end", exc)
    /\ UNCHANGED <<began_in_NONE, pool_closed, peak_nested, pipeVars, whereVars, lookupVars, joinVars, subqueryVars, indexVars, errorVars, captureVars, poolVars, caseVars>>

\* connection.on_commit(func, robust)
OnCommit ==
    /\ FreeHookIds # {}
    /\ \E robust \in BOOLEAN, beh \in HookBehaviours :
          LET h == [id |-> CHOOSE i \in FreeHookIds : \A j \in FreeHookIds : i <= j,
                    robust |-> robust, beh |-> beh]
          IN Assign(on_commit(Conn, TRUE, h))
    /\ last_op' = Met("on_commit", FALSE)
    /\ UNCHANGED <<began_in_NONE, pool_closed, peak_nested, pipeVars, whereVars, lookupVars, joinVars, subqueryVars, indexVars, errorVars, captureVars, poolVars, caseVars>>

\* connection.on_commit(func) with func not callable
OnCommitNotCallable ==
    /\ Assign(on_commit(Conn, FALSE, [id |-> 0, robust |-> FALSE, beh |-> "ok"]))
    /\ last_op' = Met("on_commit_not_callable", FALSE)
    /\ UNCHANGED <<began_in_NONE, pool_closed, peak_nested, pipeVars, whereVars, lookupVars, joinVars, subqueryVars, indexVars, errorVars, captureVars, poolVars, caseVars>>

\* connection.close_pool()
ClosePool ==
    /\ Assign(close_pool(Conn))
    /\ last_op' = Met("close_pool", FALSE)
    /\ pool_closed' = (pool_closed \/ in_atomic_block_mongo)
    /\ UNCHANGED <<began_in_NONE, peak_nested, pipeVars, whereVars, lookupVars, joinVars, subqueryVars, indexVars, errorVars, captureVars, poolVars, caseVars>>

TxnNext ==
    \/ Begin
    \/ End
    \/ OnCommit
    \/ OnCommitNotCallable
    \/ ClosePool

SpecTxn == InitTxn /\ [][TxnNext]_vars

(***************************************************************************)
(* Properties of the transaction coordinator.                              *)
(***************************************************************************)
CountEv(t, e) == Cardinality({i \in DOMAIN t : t[i].ev = e})
IsHookEv(e) == e.ev = "hook"
\* the hooks a sequence of events invoked, in order
HooksRun(t) == LET hs == SelectSeq(t, IsHookEv) IN [i \in DOMAIN hs |-> hs[i].id]
QueueIds(q) == [i \in DOMAIN q |-> q[i].id]
\* what the step just taken added to the trace
Added == SubSeq(trace', Len(trace) + 1, Len(trace'))
\* the step just taken is an __exit__ / __enter__ / on_commit(callable)
StepIsEnd == last_op'.op = "end"
StepIsBegin == last_op'.op = "begin"
StepIsOnCommit == last_op'.op = "on_commit"
StateNONE == ~in_atomic_block_mongo /\ nested_atomics = 0 /\ session = 0
\* the queue up to and including its first hook that raises and is not robust
RECURSIVE UpToFirstRaise(_)
UpToFirstRaise(q) ==
    IF q = <<>> THEN <<>>
    ELSE IF Head(q).beh = "ok" \/ Head(q).robust
         THEN <<Head(q)>> \o UpToFirstRaise(Tail(q))
         ELSE <<Head(q)>>

\* C1 (state part): an atomic() nest entered in state NONE, whatever its depth
\* and with no close_pool() inside, has issued exactly one start_transaction
\* while it is open and, once the outermost __exit__ has run, exactly one
\* start_transaction and exactly one commit_transaction or abort_transaction.
C1_OnePhysicalPerNest ==
    (began_in_NONE /\ ~pool_closed) =>
        /\ CountEv(trace, "start_transaction") = 1
        /\ CountEv(trace, "start_session") = 1
        /\ CountEv(trace, "commit_transaction") + CountEv(trace, "abort_transaction")
               = (IF in_atomic_block_mongo THEN 0 ELSE 1)

\* C1 (step part): __enter__ in ACTIVE(n) only raises the counter to n + 1.
C1_NestedBeginStep ==
    (in_atomic_block_mongo /\ StepIsBegin) =>
        /\ nested_atomics' = nested_atomics + 1
        /\ in_atomic_block_mongo'
        /\ UNCHANGED <<session, open_txns, last_session, trace, run_on_commit, connection>>

\* C1: every properly nested sequence of __enter__ and __exit__ that starts in
\* state NONE and returns to depth zero issues exactly one physical
\* start_transaction and exactly one physical commit or abort, and an
\* __enter__ in ACTIVE(n) only moves to ACTIVE(n+1), starting nothing.
C1_SinglePhysicalTransaction ==
    [](C1_OnePhysicalPerNest) /\ [][C1_NestedBeginStep]_vars

\* C1 witness: a nest of depth >= 2 entered in NONE has returned to depth zero.
C1_Witness ==
    /\ last_op.op = "end" /\ last_op.depth = 0 /\ ~in_atomic_block_mongo
    /\ began_in_NONE /\ ~pool_closed /\ peak_nested >= 1
    /\ CountEv(trace, "commit_transaction") = 1

\* C2: between operations the session handle is non-null exactly when the
\* connection is in a logical transaction (counter >= 0), and at most one
\* physical transaction is open.
C2_SessionIffInTransaction ==
    /\ (session # 0) <=> (in_atomic_block_mongo /\ nested_atomics >= 0)
    /\ Cardinality(open_txns) <= 1

\* the step just taken is the outermost __exit__ of a block that did not raise
OutermostEndOK ==
    in_atomic_block_mongo /\ nested_atomics = 0 /\ StepIsEnd /\ ~last_op'.exc
CommitFailed == raised' = "PyMongoError"

\* C3 as stated: when end(success) runs in ACTIVE(0) and the physical commit
\* goes through, the commit comes first and then every queued hook runs,
\* exactly once and in enqueue order.
C3_AllHooksAfterCommit ==
    [][(OutermostEndOK /\ ~CommitFailed) =>
          /\ HooksRun(Added) = QueueIds(run_on_commit)
          /\ session # 0 =>
                /\ Added[1] = Ev("commit_transaction", session, TRUE)
                /\ \A i \in DOMAIN Added : IsHookEv(Added[i]) => i > 1]_vars

\* C3 amended: when end(success) runs in ACTIVE(0), the physical commit is
\* issued first; if it fails no hook runs; otherwise the queued hooks run
\* afterwards in enqueue order, each at most once, up to and including the
\* first hook that raises and is not robust (the hooks queued behind that one
\* are dropped without running), and the queue is left empty.
C3_HooksAfterCommitUpToRaise ==
    [][OutermostEndOK =>
          /\ CommitFailed => HooksRun(Added) = <<>>
          /\ ~CommitFailed =>
                /\ HooksRun(Added) = QueueIds(UpToFirstRaise(run_on_commit))
                /\ run_on_commit' = <<>>
          /\ session # 0 =>
                /\ Added[1].ev = "commit_transaction" /\ Added[1].id = session
                /\ \A i \in DOMAIN Added : IsHookEv(Added[i]) => (i > 1 /\ Added[1].ok)]_vars

\* C3 witness: an outermost end(success) committed and then ran two hooks.
C3_Witness ==
    /\ last_op.op = "end" /\ last_op.depth = 0 /\ ~last_op.exc /\ last_op.had_session
    /\ Len(last_op.queued) >= 2
    /\ \E i \in DOMAIN trace :
          /\ trace[i].ev = "commit_transaction" /\ trace[i].ok
          /\ i + 3 <= Len(trace)
          /\ trace[i + 2] = Ev("hook", last_op.queued[1].id, last_op.queued[1].beh = "ok")
          /\ trace[i + 3].ev = "hook" /\ trace[i + 3].id = last_op.queued[2].id

\* the robust hooks of a queue
IsRobust(h) == h.robust

\* C4: when the outermost end runs with a failed block, or with a block that
\* succeeded but whose physical commit fails, the physical transaction is
\* rolled back and the queue is discarded, only its robust hooks being
\* attempted, with nothing of theirs propagated.
C4_FailureRollsBackAndDiscards ==
    [][(in_atomic_block_mongo /\ nested_atomics = 0 /\ StepIsEnd
          /\ (last_op'.exc \/ CommitFailed)) =>
          /\ session # 0 => CountEv(Added, "abort_transaction") = 1
          /\ session' = 0
          /\ run_on_commit' = <<>>
          /\ HooksRun(Added) = QueueIds(SelectSeq(run_on_commit, IsRobust))]_vars

\* C5: on_commit in ACTIVE(n) appends the hook to the queue and invokes nothing;
\* a queued hook is only ever invoked by the outermost __exit__ of a block
\* that did not raise, after that __exit__'s commit_transaction if a session
\* is open.
C5_QueuedNeverImmediate ==
    [][/\ (in_atomic_block_mongo /\ StepIsOnCommit) =>
             /\ Len(run_on_commit') = Len(run_on_commit) + 1
             /\ SubSeq(run_on_commit', 1, Len(run_on_commit)) = run_on_commit
             /\ trace' = trace
             /\ raised' = "none"
       /\ \A k \in DOMAIN Added :
             (IsHookEv(Added[k]) /\ Added[k].id \in HookIds(run_on_commit)) =>
                 /\ OutermostEndOK
                 /\ session # 0 =>
                       \E j \in 1..(k - 1) :
                           Added[j] = Ev("commit_transaction", session, TRUE)]_vars

\* C5 witness: a hook that raises was registered in ACTIVE(n > 0) and is queued.
C5_Witness ==
    /\ last_op.op = "on_commit" /\ last_op.depth >= 1
    /\ Len(run_on_commit) = Len(last_op.queued) + 1
    /\ run_on_commit[Len(run_on_commit)].beh # "ok"

\* C6: __exit__ in ACTIVE(n), n > 0, moves to ACTIVE(n-1) and changes nothing
\* else, whether the inner block raised or not.
C6_InnerEndOnlyDecrements ==
    [][(in_atomic_block_mongo /\ nested_atomics > 0 /\ StepIsEnd) =>
          /\ nested_atomics' = nested_atomics - 1
          /\ in_atomic_block_mongo'
          /\ raised' = "none"
          /\ UNCHANGED <<session, open_txns, last_session, trace, run_on_commit,
                         connection>>]_vars

\* C6 witness: an inner block that raised was left with a session open and a
\* hook queued.
C6_Witness ==
    /\ last_op.op = "end" /\ last_op.depth >= 1 /\ last_op.exc
    /\ session # 0 /\ Len(run_on_commit) >= 1 /\ in_atomic_block_mongo

\* ---- the commit that fails -------------------------------------------------
\* the last operation was the outermost __exit__ of a block that succeeded
OutermostEndRan == last_op.op = "end" /\ last_op.depth = 0
\* session.commit_transaction() raised in the current nest
CommitRaised ==
    \E i \in DOMAIN trace : trace[i].ev = "commit_transaction" /\ ~trace[i].ok

\* C26: when session.commit_transaction() raises at the outermost __exit__,
\* __exit__ raises to its caller (it does not return as after a commit) and
\* no second commit_transaction is issued.
C26_CommitErrorPropagates ==
    (OutermostEndRan /\ ~last_op.exc /\ CommitRaised) =>
        /\ raised # "none"
        /\ CountEv(trace, "commit_transaction") = 1

\* C26 witness: the outermost __exit__ of a successful block met a commit
\* that raised, and the driver's error reached the caller.
C26_Witness ==
    /\ OutermostEndRan /\ ~last_op.exc /\ last_op.had_session /\ CommitRaised
    /\ raised = "PyMongoError"
    /\ trace[Len(trace)] = Ev("commit_transaction", session, FALSE)

\* C29: whenever the outermost __exit__ has finished, by returning or by
\* raising, after a block that succeeded or failed and whatever the commit
\* did, the connection is in state NONE: in_atomic_block_mongo false,
\* nested_atomics 0, session None and run_on_commit empty.
C29_OutermostEndResets ==
    OutermostEndRan =>
        /\ ~in_atomic_block_mongo
        /\ nested_atomics = 0
        /\ session = 0
        /\ run_on_commit = <<>>

\* the outermost __exit__ leaves state NONE behind on every path but the one
\* where session.commit_transaction() raises
C29_ResetsUnlessCommitRaised ==
    (OutermostEndRan /\ ~(~last_op.exc /\ CommitRaised /\ raised = "PyMongoError")) =>
        /\ ~in_atomic_block_mongo
        /\ nested_atomics = 0
        /\ session = 0
        /\ run_on_commit = <<>>

(***************************************************************************)
(* Pipeline assembler: MongoQuery.get_pipeline.                            *)
(***************************************************************************)
\* high_mark is None
NoMark == -1

\* One stage document. op: its key; of: the MongoQuery attribute its content
\* is taken from; arg: that content; as, from, let, pipeline: the members of
\* a $lookup (as also names the field a $set writes).
Stage(op, of, arg) ==
    [op |-> op, of |-> of, arg |-> arg, as |-> -1, from |-> 0, let |-> 0,
     pipeline |-> <<>>]

\* MongoQuery.__init__: every fragment absent
EmptyQuery ==
    [search_pipeline |-> <<>>, lookup_pipeline |-> <<>>, subqueries |-> <<>>,
     match_mql |-> 0, aggregation_pipeline |-> <<>>, project_fields |-> 0,
     combinator_pipeline |-> <<>>, extra_fields |-> 0, ordering |-> 0,
     low_mark |-> 0, high_mark |-> NoMark,
     subquery_lookup |-> [set |-> FALSE, as |-> -1, from |-> 0, let |-> 0]]

\* A stage list that limits before it skips.
StageList_LimitFirst(q, subs) ==
       (IF q.search_pipeline # <<>> THEN q.search_pipeline ELSE <<>>)
    \o (IF q.lookup_pipeline # <<>> THEN q.lookup_pipeline ELSE <<>>)
    \o subs
    \o (IF q.match_mql # 0 THEN <<Stage("$match", "match_mql", q.match_mql)>> ELSE <<>>)
    \o (IF q.aggregation_pipeline # <<>> THEN q.aggregation_pipeline ELSE <<>>)
    \o (IF q.project_fields # 0
        THEN <<Stage("$project", "project_fields", q.project_fields)>> ELSE <<>>)
    \o (IF q.combinator_pipeline # <<>> THEN q.combinator_pipeline ELSE <<>>)
    \o (IF q.extra_fields # 0
        THEN <<Stage("$addFields", "extra_fields", q.extra_fields)>> ELSE <<>>)
    \o (IF q.ordering # 0 THEN <<Stage("$sort", "ordering", q.ordering)>> ELSE <<>>)
    \o (IF q.high_mark # NoMark
        THEN <<Stage("$limit", "high_mark", q.high_mark - q.low_mark)>> ELSE <<>>)
    \o (IF q.low_mark > 0 THEN <<Stage("$skip", "low_mark", q.low_mark)>> ELSE <<>>)

\* get_pipeline, lines 83-105: the stage list before any wrapping; subs: what
\* get_pipeline() returned for each registered subquery
StageList(q, subs) ==
       (IF q.search_pipeline # <<>> THEN q.search_pipeline ELSE <<>>)
    \o (IF q.lookup_pipeline # <<>> THEN q.lookup_pipeline ELSE <<>>)
    \o subs
    \o (IF q.match_mql # 0 THEN <<Stage("$match", "match_mql", q.match_mql)>> ELSE <<>>)
    \o (IF q.aggregation_pipeline # <<>> THEN q.aggregation_pipeline ELSE <<>>)
    \o (IF q.project_fields # 0
        THEN <<Stage("$project", "project_fields", q.project_fields)>> ELSE <<>>)
    \o (IF q.combinator_pipeline # <<>> THEN q.combinator_pipeline ELSE <<>>)
    \o (IF q.extra_fields # 0
        THEN <<Stage("$addFields", "extra_fields", q.extra_fields)>> ELSE <<>>)
    \o (IF q.ordering # 0 THEN <<Stage("$sort", "ordering", q.ordering)>> ELSE <<>>)
    \o (IF q.low_mark > 0 THEN <<Stage("$skip", "low_mark", q.low_mark)>> ELSE <<>>)
    \o (IF q.high_mark # NoMark
        THEN <<Stage("$limit", "high_mark", q.high_mark - q.low_mark)>> ELSE <<>>)

\* A wrapping whose $set does not test for the missing array.
Wrapped_SizeOnly(q, stages) ==
    <<[Stage("$lookup", "subquery_lookup", 0)
          EXCEPT !.as = q.subquery_lookup.as, !.from = q.subquery_lookup.from,
                 !.let = q.subquery_lookup.let, !.pipeline = stages],
      [Stage("$set", "subquery_lookup",
             [if |-> <<"size0">>, then |-> "empty_object", else |-> "$arrayElemAt0"])
          EXCEPT !.as = q.subquery_lookup.as]>>

\* get_pipeline, lines 106-126: the stage list wrapped as a subquery
Wrapped(q, stages) ==
    <<[Stage("$lookup", "subquery_lookup", 0)
          EXCEPT !.as = q.subquery_lookup.as, !.from = q.subquery_lookup.from,
                 !.let = q.subquery_lookup.let, !.pipeline = stages],
      [Stage("$set", "subquery_lookup",
             [if |-> <<"missing", "size0">>, then |-> "empty_object",
              else |-> "$arrayElemAt0"])
          EXCEPT !.as = q.subquery_lookup.as]>>

\* MongoQuery.get_pipeline
RECURSIVE get_pipeline(_)
RECURSIVE SubqueryStages(_)
SubqueryStages(qs) ==
    IF qs = <<>> THEN <<>> ELSE get_pipeline(Head(qs)) \o SubqueryStages(Tail(qs))

get_pipeline(q) ==
    LET stages == StageList(q, SubqueryStages(q.subqueries))
    IN IF q.subquery_lookup.set THEN Wrapped(q, stages) ELSE stages

\* The fragments a compiler may have filled in.
SearchFragments == {<<>>, <<Stage("$search", "search_pipeline", 1)>>}
LookupFragments ==
    {<<>>,
     <<Stage("$lookup", "lookup_pipeline", 1), Stage("$unwind", "lookup_pipeline", 1)>>}
AggregationFragments ==
    {<<>>,
     <<Stage("$group", "aggregation_pipeline", 1),
       Stage("$addFields", "aggregation_pipeline", 1)>>}
CombinatorFragments == {<<>>, <<Stage("$unionWith", "combinator_pipeline", 1)>>}
Marks ==
    {m \in (0..MaxMark) \X ({NoMark} \cup (0..MaxMark)) : m[2] = NoMark \/ m[2] >= m[1]}

\* the k-th subquery registered (query(), builtins.py 131-163): its output is
\* __subquery{k}; it holds a match, a sort and marks of its own
InnerQuery(k, shape) ==
    [EmptyQuery EXCEPT !.match_mql = shape[1], !.ordering = shape[2],
                       !.low_mark = shape[3][1], !.high_mark = shape[3][2],
                       !.subquery_lookup = [set |-> TRUE, as |-> k, from |-> 1, let |-> k + 1]]
InnerShapes == {<<0, 0, <<0, NoMark>>>>, <<1, 1, <<1, 2>>>>}
SubqueryLists ==
    UNION {{[k \in 1..n |-> InnerQuery(k - 1, f[k])] : f \in [1..n -> InnerShapes]}
              : n \in 0..MaxSubqueries}

Queries ==
    {[EmptyQuery EXCEPT !.search_pipeline = r.search, !.lookup_pipeline = r.lookup,
                        !.subqueries = r.subqueries, !.match_mql = r.match,
                        !.aggregation_pipeline = r.aggregation,
                        !.project_fields = r.project,
                        !.combinator_pipeline = r.combinator,
                        !.extra_fields = r.extra, !.ordering = r.ordering,
                        !.low_mark = r.marks[1], !.high_mark = r.marks[2],
                        !.subquery_lookup = r.wrap]
        : r \in [search : SearchFragments, lookup : LookupFragments,
                 subqueries : SubqueryLists, match : {0, 1},
                 aggregation : AggregationFragments, project : {0, 1},
                 combinator : CombinatorFragments, extra : {0, 1},
                 ordering : {0, 1}, marks : Marks,
                 wrap : {EmptyQuery.subquery_lookup,
                         [set |-> TRUE, as |-> 0, from |-> 1, let |-> 1]}]}

\* A compiled query waiting for get_pipeline(), with the other components idle
InitPipeline ==
    /\ bundle \in Queries
    /\ pipeline = <<>>
    /\ pipe_done = FALSE
    /\ session = 0
    /\ in_atomic_block_mongo = FALSE
    /\ nested_atomics = 0
    /\ run_on_commit = <<>>
    /\ connection = FALSE
    /\ open_txns = {}
    /\ last_session = 0
    /\ trace = <<>>
    /\ raised = "none"
    /\ last_op = [op |-> "init", depth |-> -1, exc |-> FALSE, had_session |-> FALSE,
                  queued |-> <<>>]
    /\ began_in_NONE = FALSE
    /\ pool_closed = FALSE
    /\ peak_nested = 0
    /\ case_args = 0 /\ case_mql = 0 /\ case_done = FALSE
    /\ _connection_pools = 0 /\ pc = 0 /\ conn = 0 /\ returned = 0 /\ pool_clients = {} /\ deleted = FALSE
    /\ column_indices = {} /\ col_refs = <<>> /\ let_bound = 0
    /\ calls = <<>>
    /\ idx_where = 0 /\ idx_mql = 0 /\ idx_done = FALSE
    /\ sub_args = 0 /\ sub_query = 0 /\ sub_pipe = <<>> /\ sub_docs = <<>> /\ sub_row = 0 /\ sub_pos = 0
    /\ join_args = 0 /\ join_out = <<>> /\ join_rows = <<>> /\ join_pos = 0
    /\ pred = 0 /\ path_mql = 0 /\ expr_mql = 0
    /\ node = 0 /\ as_expr = FALSE /\ lowered = 0 /\ where_done = FALSE

\* query.get_pipeline()
GetPipeline ==
    /\ ~pipe_done
    /\ pipeline' = get_pipeline(bundle)
    /\ pipe_done' = TRUE
    /\ UNCHANGED <<bundle, txnVars, whereVars, lookupVars, joinVars, subqueryVars, indexVars, errorVars, captureVars, poolVars, caseVars>>

PipelineNext == GetPipeline

SpecPipeline == InitPipeline /\ [][PipelineNext]_vars

(***************************************************************************)
(* Properties of the pipeline assembler.                                   *)
(***************************************************************************)
\* the order of section 4.5: the attribute a stage comes from, by position
EmissionOrder ==
    <<"search_pipeline", "lookup_pipeline", "subquery_lookup", "match_mql",
      "aggregation_pipeline", "project_fields", "combinator_pipeline",
      "extra_fields", "ordering", "low_mark", "high_mark">>
Rank(st) == CHOOSE i \in DOMAIN EmissionOrder : EmissionOrder[i] = st.of
From(p, of) == SelectSeq(p, LAMBDA st : st.of = of)
OneOrNone(p, of, op, present, arg) ==
    From(p, of) = IF present THEN <<Stage(op, of, arg)>> ELSE <<>>

\* C7: for a bundle that is not wrapped as a subquery, the stages come out in
\* the order search, joins, subqueries (in registration order), $match,
\* aggregation, $project, combinator, $addFields, $sort, $skip, $limit; an
\* absent fragment contributes nothing, $skip appears only for low_mark > 0 and
\* $limit carries high_mark - low_mark.
C7_StageOrder ==
    (pipe_done /\ ~bundle.subquery_lookup.set) =>
        /\ \A i, j \in DOMAIN pipeline : i < j => Rank(pipeline[i]) <= Rank(pipeline[j])
        /\ From(pipeline, "search_pipeline") = bundle.search_pipeline
        /\ From(pipeline, "lookup_pipeline") = bundle.lookup_pipeline
        /\ From(pipeline, "aggregation_pipeline") = bundle.aggregation_pipeline
        /\ From(pipeline, "combinator_pipeline") = bundle.combinator_pipeline
        /\ LET sub == From(pipeline, "subquery_lookup")
           IN /\ Len(sub) = 2 * Len(bundle.subqueries)
              /\ \A k \in DOMAIN bundle.subqueries :
                    /\ sub[2 * k - 1].op = "$lookup" /\ sub[2 * k - 1].as = k - 1
                    /\ sub[2 * k].op = "$set" /\ sub[2 * k].as = k - 1
        /\ OneOrNone(pipeline, "match_mql", "$match", bundle.match_mql # 0, bundle.match_mql)
        /\ OneOrNone(pipeline, "project_fields", "$project", bundle.project_fields # 0,
                     bundle.project_fields)
        /\ OneOrNone(pipeline, "extra_fields", "$addFields", bundle.extra_fields # 0,
                     bundle.extra_fields)
        /\ OneOrNone(pipeline, "ordering", "$sort", bundle.ordering # 0, bundle.ordering)
        /\ OneOrNone(pipeline, "low_mark", "$skip", bundle.low_mark > 0, bundle.low_mark)
        /\ OneOrNone(pipeline, "high_mark", "$limit", bundle.high_mark # NoMark,
                     bundle.high_mark - bundle.low_mark)

\* C7 witness: every fragment present, two subqueries, a skip and a limit.
C7_Witness ==
    /\ pipe_done /\ ~bundle.subquery_lookup.set
    /\ bundle.search_pipeline # <<>> /\ bundle.lookup_pipeline # <<>>
    /\ Len(bundle.subqueries) = 2 /\ bundle.match_mql # 0
    /\ bundle.aggregation_pipeline # <<>> /\ bundle.project_fields # 0
    /\ bundle.combinator_pipeline # <<>> /\ bundle.extra_fields # 0
    /\ bundle.ordering # 0 /\ bundle.low_mark = 1 /\ bundle.high_mark = 2
    /\ Len(pipeline) = 16
    /\ pipeline[15].op = "$skip" /\ pipeline[16] = Stage("$limit", "high_mark", 1)

(***************************************************************************)
(* Boolean tree lowering: where_node.                                      *)
(***************************************************************************)
\* A node of the predicate tree. kind "node": a WhereNode; "frag": a lookup
\* that compiles to a fragment; "empty" / "full": a child whose as_mql raises
\* EmptyResultSet / FullResultSet; "blank": a child whose as_mql returns a
\* falsy document; "exact": the Exact(1, rhs_sum) the XOR rewrite builds over
\* its children.
Tree(kind, id, connector, negated, children) ==
    [kind |-> kind, id |-> id, connector |-> connector, negated |-> negated,
     children |-> children]
Leaf(kind, id) == Tree(kind, id, "", FALSE, <<>>)
WhereNode(children, connector, negated) == Tree("node", 0, connector, negated, children)

\* An MQL document or expression: its operator, a scalar and its operands.
F(op, id, args) == [op |-> op, id |-> id, args |-> args]
\* {} : a falsy document
Blank == F("blank", 0, <<>>)
\* What a compile step gives: a document, or one of the two signals.
Mql(m) == [sig |-> "mql", mql |-> m]
Raise(sig) == [sig |-> sig, mql |-> Blank]

\* Value(v).as_mql(as_expr=True) for an int
Literal(v) == F("$literal", v, <<>>)

\* case() of builtins.py, for Case(When(c, then=1), default=0); cond: what
\* compiling the condition c gave
CaseWhenOne(cond) ==
    IF cond.sig = "EmptyResultSet" THEN Literal(0)
    ELSE IF cond.sig = "FullResultSet" THEN Literal(1)
    ELSE F("$switch", 0, <<F("branch", 1, <<cond.mql>>)>>)

\* reduce(add_operator, cases): nested binary $add
RECURSIVE SumOf(_)
SumOf(cases) ==
    IF Len(cases) = 1 THEN cases[1]
    ELSE F("$add", 0, <<SumOf(SubSeq(cases, 1, Len(cases) - 1)), cases[Len(cases)]>>)

\* A parity term that never takes the sum modulo 2.
XorRhs_NoMod(cases, ae) ==
    LET eq == F("$eq", 0, <<Literal(1), SumOf(cases)>>)
    IN IF ae THEN eq ELSE F("$expr", 0, <<eq>>)

\* where_node lines 318-324 and the lookup's compilation: Exact(1, rhs_sum),
\* rhs_sum being the sum of the cases, modulo 2 when there are more than two
XorRhs(cases, ae) ==
    LET sum == SumOf(cases)
        rhs_sum == IF Len(cases) > 2 THEN F("$mod", 2, <<sum>>) ELSE sum
        eq == F("$eq", 0, <<Literal(1), rhs_sum>>)
    IN IF ae THEN eq ELSE F("$expr", 0, <<eq>>)

\* Counters that start the wrong way round.
full_needed_init_Swapped(self) ==
    IF self.connector = "AND" THEN 1 ELSE Len(self.children)
empty_needed_init_Swapped(self) ==
    IF self.connector = "AND" THEN Len(self.children) ELSE 1

\* where_node lines 303-306
full_needed_init(self) ==
    IF self.connector = "AND" THEN Len(self.children) ELSE 1
empty_needed_init(self) ==
    IF self.connector = "AND" THEN 1 ELSE Len(self.children)

\* A combination that adds no negation to a fragment that is one already.
Combine_KeepsInnerNot(self, children_mql, ae) ==
    LET operator == IF self.connector = "AND" THEN "$and" ELSE "$or"
        mql == IF Len(children_mql) = 1 THEN children_mql[1]
               ELSE IF Len(children_mql) > 1 THEN F(operator, 0, children_mql)
               ELSE Blank
    IN IF mql = Blank THEN Raise("FullResultSet")
       ELSE IF self.negated /\ mql.op \notin {"$not", "$nor"}
            THEN Mql(F(IF ae THEN "$not" ELSE "$nor", 0, <<mql>>))
            ELSE Mql(mql)

\* A combination that puts even a single fragment under the operator.
Combine_NoUnwrap(self, children_mql, ae) ==
    LET operator == IF self.connector = "AND" THEN "$and" ELSE "$or"
        mql == IF Len(children_mql) >= 1 THEN F(operator, 0, children_mql)
               ELSE Blank
    IN IF mql = Blank THEN Raise("FullResultSet")
       ELSE IF self.negated
            THEN Mql(F(IF ae THEN "$not" ELSE "$nor", 0, <<mql>>))
            ELSE Mql(mql)

\* where_node lines 350-363: what is returned once every child is compiled
Combine(self, children_mql, ae) ==
    LET operator == IF self.connector = "AND" THEN "$and" ELSE "$or"
        mql == IF Len(children_mql) = 1 THEN children_mql[1]
               ELSE IF Len(children_mql) > 1 THEN F(operator, 0, children_mql)
               ELSE Blank
    IN IF mql = Blank THEN Raise("FullResultSet")
       ELSE IF self.negated
            THEN Mql(F(IF ae THEN "$not" ELSE "$nor", 0, <<mql>>))
            ELSE Mql(mql)

(***************************************************************************)
(* Lookups: the two operator tables and the choice between them.           *)
(***************************************************************************)
\* A value: of a document's field, or the right-hand side of a lookup.
Val(t, v) == [t |-> t, v |-> v]
\* the field is absent from the document
Missing == Val("missing", 0)
None == Val("null", 0)
Num(n) == Val("number", n)
Bool(b) == Val("bool", IF b THEN 1 ELSE 0)

\* a constant inside an MQL document
Raw(val) == F(val.t, val.v, <<>>)
Array(vals) == F("array", 0, [i \in DOMAIN vals |-> Raw(vals[i])])
\* {field: cond} of the query language; documents have the one field
Field(field, cond) == F("field", 0, <<cond>>)
\* {op: [x, y]} of the expression language
Op2(op, x, y) == F(op, 0, <<x, y>>)

\* col(): the field's path, or "$" and the path when as_expr
col(ae) == IF ae THEN F("$field", 0, <<>>) ELSE F("path", 0, <<>>)

\* An isnull test that only looks for the absent field.
_isnull_operator_ExistsOnly(field, is_null) ==
    IF is_null
    THEN F("$or", 0, <<Field(field, F("$exists", 0, <<Raw(Bool(FALSE))>>))>>)
    ELSE F("$and", 0, <<Field(field, F("$exists", 0, <<Raw(Bool(TRUE))>>)),
                        Field(field, F("$ne", 0, <<Raw(None)>>))>>)

\* DatabaseWrapper._isnull_operator
_isnull_operator(field, is_null) ==
    IF is_null
    THEN F("$or", 0, <<Field(field, F("$exists", 0, <<Raw(Bool(FALSE))>>)),
                       Field(field, Raw(None))>>)
    ELSE F("$and", 0, <<Field(field, F("$exists", 0, <<Raw(Bool(TRUE))>>)),
                        Field(field, F("$ne", 0, <<Raw(None)>>))>>)

\* DatabaseWrapper._range_operator
_range_operator(a, b) ==
    LET start == b[1]
        end == b[2]
        conditions ==
            (IF start # None THEN <<Field(a, F("$gte", 0, <<Raw(b[1])>>))>> ELSE <<>>)
            \o (IF end # None THEN <<Field(a, F("$lte", 0, <<Raw(b[2])>>))>> ELSE <<>>)
    IN IF conditions = <<>> THEN Raise("FullResultSet")
       ELSE IF start # None /\ end # None /\ start.v > end.v
            THEN Raise("EmptyResultSet")
            ELSE Mql(F("$and", 0, conditions))

\* DatabaseWrapper.mongo_operators[name](a, b)
mongo_operators(name, a, b) ==
    CASE name = "exact" -> Mql(Field(a, Raw(b)))
      [] name = "gt" -> Mql(Field(a, F("$gt", 0, <<Raw(b)>>)))
      [] name = "gte" -> Mql(Field(a, F("$gte", 0, <<Raw(b)>>)))
      [] name = "lt" -> Mql(F("$and", 0, <<Field(a, F("$lt", 0, <<Raw(b)>>)),
                                           _isnull_operator(a, FALSE)>>))
      [] name = "lte" -> Mql(F("$and", 0, <<Field(a, F("$lte", 0, <<Raw(b)>>)),
                                            _isnull_operator(a, FALSE)>>))
      [] name = "in" -> Mql(Field(a, F("$in", 0, [i \in DOMAIN b |-> Raw(b[i])])))
      [] name = "isnull" -> Mql(_isnull_operator(a, b))
      [] name = "range" -> _range_operator(a, b)

\* An isnull expression that only compares with null.
_isnull_expr_NullOnly(field, is_null) ==
    LET mql == F("$or", 0, <<Op2("$eq", field, Raw(None))>>)
    IN IF is_null THEN mql ELSE F("$not", 0, <<mql>>)

\* DatabaseWrapper._isnull_expr
_isnull_expr(field, is_null) ==
    LET mql == F("$or", 0, <<Op2("$eq", F("$type", 0, <<field>>), F("string_missing", 0, <<>>)),
                             Op2("$eq", field, Raw(None))>>)
    IN IF is_null THEN mql ELSE F("$not", 0, <<mql>>)

\* DatabaseWrapper.mongo_expr_operators[name](a, b)
mongo_expr_operators(name, a, b) ==
    CASE name = "exact" -> Op2("$eq", a, Raw(b))
      [] name = "gt" -> Op2("$gt", a, Raw(b))
      [] name = "gte" -> Op2("$gte", a, Raw(b))
      [] name = "lt" -> F("$and", 0, <<Op2("$lt", a, Raw(b)), _isnull_expr(a, FALSE)>>)
      [] name = "lte" -> F("$and", 0, <<Op2("$lte", a, Raw(b)), _isnull_expr(a, FALSE)>>)
      [] name = "in" -> Op2("$in", a, Array(b))
      [] name = "isnull" -> _isnull_expr(a, b)
      [] name = "range" ->
            F("$and", 0,
              <<F("$or", 0, <<_isnull_expr(Raw(b[1]), TRUE), Op2("$gte", a, Raw(b[1]))>>),
                F("$or", 0, <<_isnull_expr(Raw(b[2]), TRUE), Op2("$lte", a, Raw(b[2]))>>)>>)

\* A lookup on the field: its name, its right-hand side as Django holds it
\* (the parameters in a list) and whether its left-hand side is a simple
\* column. The fields of a WhereNode stand idle.
Lookup(name, rhs, simple) ==
    [kind |-> "lookup", id |-> 0, connector |-> "", negated |-> FALSE, children |-> <<>>,
     name |-> name, rhs |-> rhs, is_simple_column |-> simple]

\* process_rhs for a right-hand side that is a direct value
process_rhs(self) ==
    IF self.name \notin {"in", "range"} THEN self.rhs[1] ELSE self.rhs

\* lookup_can_use_path: the right-hand sides here are constants
lookup_can_use_path(self) == self.is_simple_column

\* builtin_lookup_path / is_null_path
builtin_lookup_path(self) ==
    IF self.name = "isnull"
    THEN mongo_operators("isnull", col(FALSE), self.rhs[1].v = 1)
    ELSE mongo_operators(self.name, col(FALSE), process_rhs(self))

\* builtin_lookup_expr / is_null_expr
builtin_lookup_expr(self) ==
    IF self.name = "isnull"
    THEN mongo_expr_operators("isnull", col(TRUE), self.rhs[1].v = 1)
    ELSE mongo_expr_operators(self.name, col(TRUE), process_rhs(self))

\* base_expression
base_expression(self, ae) ==
    IF ~ae /\ lookup_can_use_path(self)
    THEN builtin_lookup_path(self)
    ELSE LET expr == builtin_lookup_expr(self)
         IN Mql(IF ae THEN expr ELSE F("$expr", 0, <<expr>>))

RECURSIVE where_node(_, _)
RECURSIVE as_mql(_, _)
RECURSIVE CompileChildren(_, _, _, _, _, _)
RECURSIVE Cases(_)

\* the Case(When(c, then=1), default=0) of each child, compiled
Cases(children) ==
    IF children = <<>> THEN <<>>
    ELSE <<CaseWhenOne(as_mql(Head(children), TRUE))>> \o Cases(Tail(children))

\* child.as_mql(compiler, connection, as_expr=ae)
as_mql(child, ae) ==
    CASE child.kind = "frag" -> Mql(F(IF ae THEN "expr" ELSE "path", child.id, <<>>))
      [] child.kind = "empty" -> Raise("EmptyResultSet")
      [] child.kind = "full" -> Raise("FullResultSet")
      [] child.kind = "blank" -> Mql(Blank)
      [] child.kind = "exact" -> Mql(XorRhs(Cases(child.children), ae))
      [] child.kind = "node" -> where_node(child, ae)
      [] child.kind = "lookup" -> base_expression(child, ae)

\* where_node lines 331-348: the loop over the children
CompileChildren(self, rest, full_needed, empty_needed, children_mql, ae) ==
    IF rest = <<>>
    THEN Combine(self, children_mql, ae)
    ELSE LET r == as_mql(Head(rest), ae)
             en == IF r.sig = "EmptyResultSet" THEN empty_needed - 1 ELSE empty_needed
             fn == IF r.sig = "FullResultSet" \/ (r.sig = "mql" /\ r.mql = Blank)
                   THEN full_needed - 1 ELSE full_needed
             cm == IF r.sig = "mql" /\ r.mql # Blank
                   THEN Append(children_mql, r.mql) ELSE children_mql
         IN IF r.sig \notin {"mql", "EmptyResultSet", "FullResultSet"} THEN r
            ELSE IF en = 0
                 THEN Raise(IF self.negated THEN "FullResultSet" ELSE "EmptyResultSet")
            ELSE IF fn = 0
                 THEN Raise(IF self.negated THEN "EmptyResultSet" ELSE "FullResultSet")
            ELSE CompileChildren(self, Tail(rest), fn, en, cm, ae)

\* where_node
where_node(self, ae) ==
    IF self.connector = "XOR"
    THEN IF self.children = <<>>
         THEN Raise("TypeError")
         ELSE LET lhs == WhereNode(self.children, "OR", FALSE)
                  rhs == Tree("exact", 0, "", FALSE, self.children)
              IN where_node(WhereNode(<<lhs, rhs>>, "AND", self.negated), ae)
    ELSE CompileChildren(self, self.children, full_needed_init(self),
                         empty_needed_init(self), <<>>, ae)

\* ---- the trees lowered ---------------------------------------------------
Connectors == {"AND", "OR", "XOR"}
\* the leaf that stands at a place of the tree: lookups at different places
\* are different lookups
LeavesAt(id, kinds) == {Leaf(k, id) : k \in kinds}

\* the child lists of length n whose i-th child is a leaf
RECURSIVE LeafLists(_, _, _)
LeafLists(n, base, kinds) ==
    IF n = 0 THEN {<<>>}
    ELSE {Append(l, c) : l \in LeafLists(n - 1, base, kinds),
                         c \in LeavesAt(base + n, kinds)}

\* WhereNodes over leaves only
FlatTrees ==
    {WhereNode(cs, c, neg) :
        cs \in UNION {LeafLists(n, 0, {"frag", "empty", "full", "blank"})
                         : n \in 0..MaxChildren},
        c \in Connectors, neg \in BOOLEAN}

\* a child of a nested tree holding k leaves: a leaf, or an AND/OR node over
\* k leaves; base numbers its lookups
Element(k, base) ==
    (IF k = 1 THEN LeavesAt(base, {"frag", "empty", "full"}) ELSE {})
    \cup {WhereNode(cs, c, neg) :
             cs \in LeafLists(k, base, {"frag", "empty", "full"}),
             c \in {"AND", "OR"}, neg \in BOOLEAN}

\* WhereNodes with one or two children, WhereNodes among them, holding at
\* most MaxLeaves leaves
NestedTrees ==
    {WhereNode(cs, c, neg) :
        cs \in (UNION {{<<e>> : e \in Element(k, 10)} : k \in 1..MaxLeaves})
               \cup (UNION {{<<e1, e2>> : e1 \in Element(ks[1], 10),
                                          e2 \in Element(ks[2], 20)}
                               : ks \in {x \in (1..MaxLeaves) \X (1..MaxLeaves)
                                            : x[1] + x[2] <= MaxLeaves}}),
        c \in Connectors, neg \in BOOLEAN}

\* NOT p: a negated node around p
Not(p) == WhereNode(<<p>>, "AND", TRUE)

\* NOT (NOT p), p a leaf or a WhereNode over at most two leaves
DoubleNegations ==
    {Not(Not(p)) :
        p \in LeavesAt(1, {"frag", "empty", "full", "blank"})
              \cup {WhereNode(cs, c, neg) :
                       cs \in LeafLists(0, 0, {}) \cup LeafLists(1, 0, {"frag", "empty", "full"})
                              \cup LeafLists(2, 0, {"frag", "empty", "full"}),
                       c \in Connectors, neg \in BOOLEAN}}

Trees == FlatTrees \cup NestedTrees \cup DoubleNegations

\* A WhereNode waiting to be lowered, with the other components idle
InitWhere ==
    /\ node \in Trees
    /\ as_expr \in BOOLEAN
    /\ lowered = Raise("none")
    /\ where_done = FALSE
    /\ session = 0
    /\ in_atomic_block_mongo = FALSE
    /\ nested_atomics = 0
    /\ run_on_commit = <<>>
    /\ connection = FALSE
    /\ open_txns = {}
    /\ last_session = 0
    /\ trace = <<>>
    /\ raised = "none"
    /\ last_op = [op |-> "init", depth |-> -1, exc |-> FALSE, had_session |-> FALSE,
                  queued |-> <<>>]
    /\ began_in_NONE = FALSE
    /\ pool_closed = FALSE
    /\ peak_nested = 0
    /\ case_args = 0 /\ case_mql = 0 /\ case_done = FALSE
    /\ _connection_pools = 0 /\ pc = 0 /\ conn = 0 /\ returned = 0 /\ pool_clients = {} /\ deleted = FALSE
    /\ column_indices = {} /\ col_refs = <<>> /\ let_bound = 0
    /\ calls = <<>>
    /\ idx_where = 0 /\ idx_mql = 0 /\ idx_done = FALSE
    /\ sub_args = 0 /\ sub_query = 0 /\ sub_pipe = <<>> /\ sub_docs = <<>> /\ sub_row = 0 /\ sub_pos = 0
    /\ join_args = 0 /\ join_out = <<>> /\ join_rows = <<>> /\ join_pos = 0
    /\ pred = 0 /\ path_mql = 0 /\ expr_mql = 0
    /\ bundle = 0 /\ pipeline = <<>> /\ pipe_done = FALSE

\* node.as_mql(compiler, connection, as_expr=as_expr)
LowerWhere ==
    /\ ~where_done
    /\ lowered' = where_node(node, as_expr)
    /\ where_done' = TRUE
    /\ UNCHANGED <<node, as_expr, txnVars, pipeVars, lookupVars, joinVars, subqueryVars, indexVars, errorVars, captureVars, poolVars, caseVars>>

WhereNext == LowerWhere

SpecWhere == InitWhere /\ [][WhereNext]_vars

(***************************************************************************)
(* Properties of the boolean tree lowering.                                *)
(***************************************************************************)
\* the lookups of a tree
RECURSIVE LookupIds(_)
LookupIds(t) ==
    IF t.kind = "frag" THEN {t.id}
    ELSE UNION {LookupIds(t.children[i]) : i \in DOMAIN t.children}

\* The truth of a tree on a document, by the connectives' truth tables; asg
\* says which lookups the document satisfies.
RECURSIVE Truth(_, _)
Truth(t, asg) ==
    CASE t.kind = "frag" -> asg[t.id]
      [] t.kind = "empty" -> FALSE
      [] t.kind \in {"full", "blank"} -> TRUE
      [] t.kind = "node" ->
            LET n == Cardinality({i \in DOMAIN t.children : Truth(t.children[i], asg)})
                v == CASE t.connector = "AND" -> n = Len(t.children)
                       [] t.connector = "OR" -> n > 0
                       [] t.connector = "XOR" -> n % 2 = 1
            IN IF t.negated THEN ~v ELSE v

\* What an MQL document or expression evaluates to on a document.
RECURSIVE EvalBool(_, _)
RECURSIVE EvalNum(_, _)
EvalBool(f, asg) ==
    CASE f.op \in {"path", "expr"} -> asg[f.id]
      [] f.op = "blank" -> TRUE
      [] f.op = "$and" -> \A i \in DOMAIN f.args : EvalBool(f.args[i], asg)
      [] f.op = "$or" -> \E i \in DOMAIN f.args : EvalBool(f.args[i], asg)
      [] f.op \in {"$nor", "$not"} -> ~\E i \in DOMAIN f.args : EvalBool(f.args[i], asg)
      [] f.op = "$expr" -> EvalBool(f.args[1], asg)
      [] f.op = "$eq" -> EvalNum(f.args[1], asg) = EvalNum(f.args[2], asg)
EvalNum(f, asg) ==
    CASE f.op = "$literal" -> f.id
      [] f.op = "$switch" ->
            IF \E i \in DOMAIN f.args : EvalBool(f.args[i].args[1], asg)
            THEN f.args[CHOOSE i \in DOMAIN f.args :
                           /\ EvalBool(f.args[i].args[1], asg)
                           /\ \A j \in 1..(i - 1) : ~EvalBool(f.args[j].args[1], asg)].id
            ELSE f.id
      [] f.op = "$add" -> EvalNum(f.args[1], asg) + EvalNum(f.args[2], asg)
      [] f.op = "$mod" -> EvalNum(f.args[1], asg) % f.id

\* what a lowering result matches: everything, nothing, or what the document says
Matches(r, asg) ==
    CASE r.sig = "FullResultSet" -> TRUE
      [] r.sig = "EmptyResultSet" -> FALSE
      [] r.sig = "mql" -> EvalBool(r.mql, asg)

\* a child that is statically ALWAYS-FALSE / ALWAYS-TRUE
StaticFalse(child) == as_mql(child, as_expr).sig = "EmptyResultSet"
StaticTrue(child) == as_mql(child, as_expr).sig = "FullResultSet"

\* C8: an AND node with an operand that is statically ALWAYS-FALSE lowers to
\* the ALWAYS-FALSE signal for the conjunction (EmptyResultSet; FullResultSet
\* when the node negates the conjunction), whatever its other operands are.
C8_AndWithAlwaysFalse ==
    (where_done /\ node.connector = "AND"
        /\ \E i \in DOMAIN node.children : StaticFalse(node.children[i])) =>
        lowered = Raise(IF node.negated THEN "FullResultSet" ELSE "EmptyResultSet")

\* C8 witness: AND(lookup, lookup, ALWAYS-FALSE) lowered to EmptyResultSet.
C8_Witness ==
    /\ where_done /\ node.connector = "AND" /\ ~node.negated
    /\ Len(node.children) = 3
    /\ node.children[1].kind = "frag" /\ node.children[2].kind = "frag"
    /\ node.children[3].kind = "empty"
    /\ lowered.sig = "EmptyResultSet"

\* C9: an OR node with an operand that is statically ALWAYS-TRUE lowers to
\* the ALWAYS-TRUE signal for the disjunction (FullResultSet; EmptyResultSet
\* when the node negates the disjunction), whatever its siblings are.
C9_OrWithAlwaysTrue ==
    (where_done /\ node.connector = "OR"
        /\ \E i \in DOMAIN node.children : StaticTrue(node.children[i])) =>
        lowered = Raise(IF node.negated THEN "EmptyResultSet" ELSE "FullResultSet")

\* C9 witness: OR(lookup, ALWAYS-FALSE, lookup, ALWAYS-TRUE) lowered to FullResultSet.
C9_Witness ==
    /\ where_done /\ node.connector = "OR" /\ ~node.negated
    /\ Len(node.children) = 4
    /\ node.children[1].kind = "frag" /\ node.children[2].kind = "empty"
    /\ node.children[3].kind = "frag" /\ node.children[4].kind = "full"
    /\ lowered.sig = "FullResultSet"

\* C10: the lowering of an XOR node of 2, 3 or 4 operands matches a document
\* exactly when an odd number of its operands are true of it, and the
\* complement of that when the node is negated, for every truth value of the
\* operands.
C10_XorParity ==
    (where_done /\ node.connector = "XOR" /\ Len(node.children) \in 2..4) =>
        \A asg \in [LookupIds(node) -> BOOLEAN] :
            Matches(lowered, asg) = Truth(node, asg)

\* C10 witness: an XOR of four lookups was lowered to a fragment.
C10_Witness ==
    /\ where_done /\ node.connector = "XOR" /\ Len(node.children) = 4
    /\ \A i \in 1..4 : node.children[i].kind = "frag"
    /\ lowered.sig = "mql" /\ lowered.mql.op = "$and"
    /\ \E asg \in [LookupIds(node) -> BOOLEAN] :
          Cardinality({i \in 1..4 : asg[i]}) = 3 /\ Matches(lowered, asg)

(***************************************************************************)
(* Compiling a predicate over lookups in the two modes.                    *)
(***************************************************************************)
Values == 0..MaxValue
Nums == {Num(v) : v \in Values}

\* the numbers of a set, ascending
RECURSIVE Ascending(_)
Ascending(S) ==
    IF S = {} THEN <<>>
    ELSE LET m == CHOOSE x \in S : \A y \in S : x <= y
         IN <<Num(m)>> \o Ascending(S \ {m})

\* The right-hand sides Django hands over: a number for the comparisons (None
\* is refused or turned into isnull before), a non-empty list without None
\* for "in", a boolean for isnull, a pair of bounds, each a number or None,
\* for range.
RhsOf(name) ==
    CASE name \in {"exact", "gt", "gte", "lt", "lte"} -> {<<n>> : n \in Nums}
      [] name = "in" -> {Ascending(S) : S \in (SUBSET Values) \ {{}}}
      [] name = "isnull" -> {<<Bool(b)>> : b \in BOOLEAN}
      [] name = "range" -> {<<s, e>> : s \in Nums \cup {None}, e \in Nums \cup {None}}

\* the lookups both operator tables hold and the model compiles
LookupNames == {"exact", "gt", "gte", "lt", "lte", "in", "isnull", "range"}
Lookups(simple) ==
    UNION {{Lookup(name, rhs, simple) : rhs \in RhsOf(name)} : name \in LookupNames}

\* a WhereNode over lookups
LookupNode(children, connector, negated) ==
    [kind |-> "node", id |-> 0, connector |-> connector, negated |-> negated,
     children |-> children, name |-> "", rhs |-> <<>>, is_simple_column |-> FALSE]

\* AND / OR nodes, negated or not, over one or two lookups
LookupNodes ==
    {LookupNode(cs, c, neg) :
        cs \in {<<l>> : l \in Lookups(TRUE)}
               \cup {<<l1, l2>> : l1 \in Lookups(TRUE), l2 \in Lookups(TRUE)},
        c \in {"AND", "OR"}, neg \in BOOLEAN}

\* a lookup, a node over lookups, or a node over such a node
Predicates ==
    Lookups(TRUE) \cup Lookups(FALSE) \cup LookupNodes
    \cup {LookupNode(<<n>>, c, neg) : n \in LookupNodes, c \in {"AND", "OR"}, neg \in BOOLEAN}

NotCompiled == Raise("none")

\* A predicate waiting to be compiled, with the other components idle
InitLookup ==
    /\ pred \in Predicates
    /\ path_mql = NotCompiled
    /\ expr_mql = NotCompiled
    /\ session = 0
    /\ in_atomic_block_mongo = FALSE
    /\ nested_atomics = 0
    /\ run_on_commit = <<>>
    /\ connection = FALSE
    /\ open_txns = {}
    /\ last_session = 0
    /\ trace = <<>>
    /\ raised = "none"
    /\ last_op = [op |-> "init", depth |-> -1, exc |-> FALSE, had_session |-> FALSE,
                  queued |-> <<>>]
    /\ began_in_NONE = FALSE
    /\ pool_closed = FALSE
    /\ peak_nested = 0
    /\ case_args = 0 /\ case_mql = 0 /\ case_done = FALSE
    /\ _connection_pools = 0 /\ pc = 0 /\ conn = 0 /\ returned = 0 /\ pool_clients = {} /\ deleted = FALSE
    /\ column_indices = {} /\ col_refs = <<>> /\ let_bound = 0
    /\ calls = <<>>
    /\ idx_where = 0 /\ idx_mql = 0 /\ idx_done = FALSE
    /\ sub_args = 0 /\ sub_query = 0 /\ sub_pipe = <<>> /\ sub_docs = <<>> /\ sub_row = 0 /\ sub_pos = 0
    /\ join_args = 0 /\ join_out = <<>> /\ join_rows = <<>> /\ join_pos = 0
    /\ bundle = 0 /\ pipeline = <<>> /\ pipe_done = FALSE
    /\ node = 0 /\ as_expr = FALSE /\ lowered = 0 /\ where_done = FALSE

\* pred.as_mql(compiler, connection)
CompilePath ==
    /\ path_mql = NotCompiled
    /\ path_mql' = as_mql(pred, FALSE)
    /\ UNCHANGED <<pred, expr_mql, txnVars, pipeVars, whereVars, joinVars, subqueryVars, indexVars, errorVars, captureVars, poolVars, caseVars>>

\* pred.as_mql(compiler, connection, as_expr=True)
CompileExpr ==
    /\ expr_mql = NotCompiled
    /\ expr_mql' = as_mql(pred, TRUE)
    /\ UNCHANGED <<pred, path_mql, txnVars, pipeVars, whereVars, joinVars, subqueryVars, indexVars, errorVars, captureVars, poolVars, caseVars>>

LookupNext == CompilePath \/ CompileExpr

SpecLookup == InitLookup /\ [][LookupNext]_vars

(***************************************************************************)
(* What the database does with a fragment: the query language of $match    *)
(* and the expression language of $expr, on a document's field.            *)
(***************************************************************************)
\* what a document may hold in the field
DocValues == {Missing, None} \cup Nums

\* BSON comparison order of the types met here
TypeRank(x) ==
    CASE x.t = "missing" -> 0
      [] x.t = "null" -> 1
      [] x.t = "number" -> 2
      [] x.t = "bool" -> 4
      [] OTHER -> 3
Less(x, y) == TypeRank(x) < TypeRank(y) \/ (TypeRank(x) = TypeRank(y) /\ x.v < y.v)
Truthy(x) == ~(x.t \in {"missing", "null"} \/ (x.t \in {"bool", "number"} /\ x.v = 0))
TypeOf(x) ==
    CASE x.t = "missing" -> Val("string_missing", 0)
      [] x.t = "null" -> Val("string_null", 0)
      [] x.t = "number" -> Val("string_int", 0)
      [] x.t = "bool" -> Val("string_bool", 0)
      [] OTHER -> Val("string_string", 0)

\* the value of an aggregation expression
RECURSIVE EvalExpr(_, _)
EvalExpr(e, val) ==
    LET x == EvalExpr(e.args[1], val)
        y == EvalExpr(e.args[2], val)
    IN CASE e.op = "$field" -> val
         [] e.op = "$type" -> TypeOf(x)
         [] e.op = "$eq" -> Bool(x = y)
         [] e.op = "$gt" -> Bool(Less(y, x))
         [] e.op = "$gte" -> Bool(~Less(x, y))
         [] e.op = "$lt" -> Bool(Less(x, y))
         [] e.op = "$lte" -> Bool(~Less(y, x))
         [] e.op = "$in" ->
               Bool(\E i \in DOMAIN e.args[2].args : EvalExpr(e.args[2].args[i], val) = x)
         [] e.op = "$and" -> Bool(\A i \in DOMAIN e.args : Truthy(EvalExpr(e.args[i], val)))
         [] e.op = "$or" -> Bool(\E i \in DOMAIN e.args : Truthy(EvalExpr(e.args[i], val)))
         [] e.op = "$not" -> Bool(~Truthy(x))
         [] OTHER -> Val(e.op, e.id)

\* whether the field satisfies a condition of the query language; comparisons
\* there only match values of the bound's type, and null matches the absent
\* field too
RECURSIVE MatchCond(_, _)
MatchCond(c, val) ==
    LET b == Val(c.args[1].op, c.args[1].id)
        same == IF b = None THEN val \in {Missing, None} ELSE val.t = b.t
    IN CASE c.op = "$exists" -> (val # Missing) = (c.args[1].id = 1)
         [] c.op = "$ne" -> ~MatchCond(c.args[1], val)
         [] c.op = "$in" -> \E i \in DOMAIN c.args : MatchCond(c.args[i], val)
         [] c.op = "$gt" -> same /\ Less(b, val) /\ b # None
         [] c.op = "$gte" -> same /\ (b = None \/ ~Less(val, b))
         [] c.op = "$lt" -> same /\ Less(val, b) /\ b # None
         [] c.op = "$lte" -> same /\ (b = None \/ ~Less(b, val))
         [] c.op = "null" -> val \in {Missing, None}
         [] OTHER -> val = Val(c.op, c.id)

\* whether a document matches a query document
RECURSIVE MatchQuery(_, _)
MatchQuery(q, val) ==
    CASE q.op = "$and" -> \A i \in DOMAIN q.args : MatchQuery(q.args[i], val)
      [] q.op = "$or" -> \E i \in DOMAIN q.args : MatchQuery(q.args[i], val)
      [] q.op = "$nor" -> ~\E i \in DOMAIN q.args : MatchQuery(q.args[i], val)
      [] q.op = "field" -> MatchCond(q.args[1], val)
      [] q.op = "$expr" -> Truthy(EvalExpr(q.args[1], val))
      [] q.op = "blank" -> TRUE

\* the documents a compilation selects: as a $match stage (as_expr False) or
\* as a condition inside an expression (as_expr True)
Selects(r, ae, val) ==
    CASE r.sig = "FullResultSet" -> TRUE
      [] r.sig = "EmptyResultSet" -> FALSE
      [] r.sig = "mql" -> IF ae THEN Truthy(EvalExpr(r.mql, val)) ELSE MatchQuery(r.mql, val)

BothCompiled == path_mql # NotCompiled /\ expr_mql # NotCompiled
IsNullLookup(b) == pred.kind = "lookup" /\ pred.name = "isnull" /\ pred.rhs = <<Bool(b)>>

\* C11: in both modes the isnull=True fragment matches a document exactly
\* when the field is absent or null, and the isnull=False fragment matches
\* exactly the other documents (field present and not null); so no document
\* matches both or neither.
C11_IsNullComplement ==
    \A b \in BOOLEAN : \A val \in DocValues :
        /\ (IsNullLookup(b) /\ path_mql # NotCompiled) =>
              (Selects(path_mql, FALSE, val) = ((val \in {Missing, None}) = b))
        /\ (IsNullLookup(b) /\ expr_mql # NotCompiled) =>
              (Selects(expr_mql, TRUE, val) = ((val \in {Missing, None}) = b))

\* C11 witness: isnull=True on a simple column compiled in both modes, to the
\* query-language fragment and to the expression.
C11_Witness ==
    /\ IsNullLookup(TRUE) /\ pred.is_simple_column /\ BothCompiled
    /\ path_mql.mql.op = "$or" /\ Len(path_mql.mql.args) = 2
    /\ expr_mql.mql.op = "$or"
    /\ Selects(path_mql, FALSE, Missing) /\ Selects(path_mql, FALSE, None)
    /\ Selects(expr_mql, TRUE, Missing) /\ Selects(expr_mql, TRUE, None)
    /\ ~Selects(expr_mql, TRUE, Num(0))

\* C12: for every predicate over the lookups of both tables, combined by
\* AND / OR / NOT, the PATH compilation and the EXPR compilation select the
\* same documents, documents without the field or with a null included.
C12_ModeEquivalence ==
    BothCompiled =>
        \A val \in DocValues : Selects(path_mql, FALSE, val) = Selects(expr_mql, TRUE, val)

\* the two modes agree on every predicate without a range whose lower bound
\* is absent and whose upper bound is given
RECURSIVE HasOpenStartRange(_)
HasOpenStartRange(t) ==
    \/ t.kind = "lookup" /\ t.name = "range" /\ t.rhs[1] = None /\ t.rhs[2] # None
    \/ \E i \in DOMAIN t.children : HasOpenStartRange(t.children[i])
C12_ModesAgreeButOpenStartRange ==
    (BothCompiled /\ ~HasOpenStartRange(pred)) =>
        \A val \in DocValues : Selects(path_mql, FALSE, val) = Selects(expr_mql, TRUE, val)

\* ---- the not-null guard of < and <= ---------------------------------------
\* the document holds no value in the field
IsNullValue(val) == val \in {Missing, None}
\* the expression or query document inside a compilation: what $expr wraps
\* when the left-hand side is no simple column
Core(r) == IF r.mql.op = "$expr" THEN r.mql.args[1] ELSE r.mql
\* the documents a fragment of a compilation selects
CoreSelects(r, ae, frag, val) ==
    IF ae \/ r.mql.op = "$expr"
    THEN Truthy(EvalExpr(frag, val))
    ELSE MatchQuery(frag, val)
\* what lt / lte / gt / gte / exact mean on a value that is a number
Compare(name, x, y) ==
    CASE name = "lt" -> x < y
      [] name = "lte" -> x <= y
      [] name = "gt" -> x > y
      [] name = "gte" -> x >= y
      [] name = "exact" -> x = y
\* a compilation of a < or <= lookup is the conjunction of the raw comparison
\* and a guard that selects exactly the documents holding a value
GuardedComparison(r, ae) ==
    /\ r.sig = "mql"
    /\ Core(r).op = "$and" /\ Len(Core(r).args) = 2
    /\ \A val \in DocValues :
          /\ CoreSelects(r, ae, Core(r).args[2], val) = ~IsNullValue(val)
          /\ val \in Nums =>
                CoreSelects(r, ae, Core(r).args[1], val) = Compare(pred.name, val.v, pred.rhs[1].v)
          /\ IsNullValue(val) => ~Selects(r, ae, val)
          /\ val \in Nums => Selects(r, ae, val) = Compare(pred.name, val.v, pred.rhs[1].v)
\* a compilation of gt, gte or exact is the raw comparison alone
BareComparison(r, ae) ==
    /\ r.sig = "mql"
    /\ Core(r).op \in {"field", "$gt", "$gte", "$eq"}
    /\ \A val \in Nums : Selects(r, ae, val) = Compare(pred.name, val.v, pred.rhs[1].v)

\* C21: a lt or lte lookup compiles, in PATH mode and in EXPR mode, to the
\* conjunction of the raw comparison and a not-null guard, so a document whose
\* field is null or absent is selected for no comparison value; gt, gte and
\* exact compile to the raw comparison without a guard.
C21_LessThanGuarded ==
    /\ (pred.kind = "lookup" /\ pred.name \in {"lt", "lte"}) =>
          /\ path_mql # NotCompiled => GuardedComparison(path_mql, FALSE)
          /\ expr_mql # NotCompiled => GuardedComparison(expr_mql, TRUE)
    /\ (pred.kind = "lookup" /\ pred.name \in {"gt", "gte", "exact"}) =>
          /\ path_mql # NotCompiled => BareComparison(path_mql, FALSE)
          /\ expr_mql # NotCompiled => BareComparison(expr_mql, TRUE)

\* C21 witness: field < 1 on a simple column, compiled in both modes; a
\* document with null in the field passes the raw $lt of the expression but
\* is not selected.
C21_Witness ==
    /\ pred.kind = "lookup" /\ pred.name = "lt" /\ pred.rhs = <<Num(1)>>
    /\ pred.is_simple_column /\ BothCompiled
    /\ path_mql.mql.op = "$and" /\ path_mql.mql.args[1].op = "field"
    /\ expr_mql.mql.op = "$and" /\ expr_mql.mql.args[1].op = "$lt"
    /\ Truthy(EvalExpr(expr_mql.mql.args[1], None))
    /\ ~Selects(expr_mql, TRUE, None) /\ ~Selects(path_mql, FALSE, Missing)
    /\ Selects(expr_mql, TRUE, Num(0)) /\ Selects(path_mql, FALSE, Num(0))

\* NOT (NOT p) as the WhereNode tree holds it
IsDoubleNegation(t) ==
    /\ t.kind = "node" /\ t.negated /\ Len(t.children) = 1
    /\ t.children[1].kind = "node" /\ t.children[1].negated
    /\ t.children[1].connector \in {"AND", "OR"}
    /\ t.connector \in {"AND", "OR"}
    /\ Len(t.children[1].children) = 1
Signals == {"EmptyResultSet", "FullResultSet"}

\* C13: lowering NOT (NOT p) gives, in both modes, what matches the same
\* documents as lowering p itself: the same signal when p lowers to
\* ALWAYS-TRUE or ALWAYS-FALSE, and otherwise a fragment that matches exactly
\* what p's fragment matches.
C13_DoubleNegation ==
    (where_done /\ IsDoubleNegation(node)) =>
        LET direct == as_mql(node.children[1].children[1], as_expr)
        IN /\ direct.sig \in Signals => lowered = direct
           /\ direct.sig = "mql" =>
                 /\ lowered.sig \in Signals \cup {"mql"}
                 /\ direct.mql # Blank => lowered.sig = "mql"
                 /\ \A asg \in [LookupIds(node) -> BOOLEAN] :
                       Matches(lowered, asg) = Matches(direct, asg)

\* C13 witness: NOT (NOT (a OR b)) lowered in PATH mode to $nor of $nor of
\* the $or that a OR b lowers to.
C13_Witness ==
    /\ where_done /\ IsDoubleNegation(node) /\ ~as_expr
    /\ node.children[1].children[1].kind = "node"
    /\ node.children[1].children[1].connector = "OR"
    /\ lowered.sig = "mql" /\ lowered.mql.op = "$nor"
    /\ lowered.mql.args[1].op = "$nor"
    /\ lowered.mql.args[1].args[1] = where_node(node.children[1].children[1], FALSE).mql
    /\ lowered.mql.args[1].args[1].op = "$or"

(***************************************************************************)
(* Join lowering: join().                                                  *)
(***************************************************************************)
\* a pair of join_fields as prepare_join_on_clause and the loop see it
JoinPair(fk, lhs_simple, rhs_simple, i) ==
    [is_fk |-> fk, lhs_simple |-> lhs_simple, rhs_simple |-> rhs_simple,
     lhs |-> i, rhs |-> 10 + i]
\* a Where expression by the columns at its leaves, each of the parent
\* ("parent") or of the joined table ("joined"); id 0: None
Expression(id, cols) == [id |-> id, cols |-> cols]
NoExpression == Expression(0, <<>>)

\* _get_reroot_replacements and expression.replace_expressions(...).as_mql():
\* every column of the parent is appended to lhs_fields and replaced by a
\* reference to its position
RECURSIVE Reroot(_, _, _)
Reroot(cols, lhs_fields, refs) ==
    IF cols = <<>> THEN [lhs_fields |-> lhs_fields, refs |-> refs]
    ELSE IF Head(cols) = "parent"
         THEN Reroot(Tail(cols), Append(lhs_fields, 20 + Len(lhs_fields)),
                     Append(refs, F("$parent__field__", Len(lhs_fields), <<>>)))
         ELSE Reroot(Tail(cols), lhs_fields, Append(refs, F("column", 0, <<>>)))
Rerooted(expression, lhs_fields) ==
    LET r == Reroot(expression.cols, lhs_fields, <<>>)
    IN [lhs_fields |-> r.lhs_fields, mql |-> F("where", expression.id, r.refs)]

\* A fold of the pushed filter that does not look at the join type.
PushedFilter_AnyJoinType(self, pushed_filter_expression, lhs_fields) ==
    IF pushed_filter_expression # NoExpression
    THEN LET r == Rerooted(pushed_filter_expression, lhs_fields)
         IN [lhs_fields |-> r.lhs_fields, conditions |-> <<r.mql>>]
    ELSE [lhs_fields |-> lhs_fields, conditions |-> <<>>]

\* join lines 229-235: the pushed filter
PushedFilter(self, pushed_filter_expression, lhs_fields) ==
    IF pushed_filter_expression # NoExpression /\ self.join_type = "INNER"
    THEN LET r == Rerooted(pushed_filter_expression, lhs_fields)
         IN [lhs_fields |-> r.lhs_fields, conditions |-> <<r.mql>>]
    ELSE [lhs_fields |-> lhs_fields, conditions |-> <<>>]

\* the $set that puts [{}] where the lookup array is missing or empty
SetPlaceholder(self) == [op |-> "$set", field |-> self.table_alias, then |-> <<0>>]

\* A placeholder for every join type.
Placeholder_Always(self) == <<SetPlaceholder(self)>>

\* join lines 278-297
Placeholder(self) ==
    IF self.join_type # "INNER" THEN <<SetPlaceholder(self)>> ELSE <<>>

\* A test that takes any two simple columns.
UsesLocalField_AnySimple(p) == p.lhs_simple /\ p.rhs_simple

\* whether a pair is joined by localField / foreignField
UsesLocalField(p) == p.is_fk /\ p.lhs_simple /\ p.rhs_simple

\* join
join(self, pushed_filter_expression) ==
    LET simple == SelectSeq(self.join_fields, UsesLocalField)
        others == SelectSeq(self.join_fields, LAMBDA p : ~UsesLocalField(p))
        \* the assignments of the last such pair are the ones left
        local_field == IF simple = <<>> THEN 0 ELSE simple[Len(simple)].lhs
        foreign_field == IF simple = <<>> THEN 0 ELSE simple[Len(simple)].rhs
        lhs_fields0 == [i \in DOMAIN others |-> others[i].lhs]
        rhs_fields == [i \in DOMAIN others |-> others[i].rhs]
        ex == IF self.extra # NoExpression
              THEN LET r == Rerooted(self.extra, lhs_fields0)
                   IN [lhs_fields |-> r.lhs_fields, conditions |-> <<r.mql>>]
              ELSE [lhs_fields |-> lhs_fields0, conditions |-> <<>>]
        pu == PushedFilter(self, pushed_filter_expression, ex.lhs_fields)
        lhs_fields == pu.lhs_fields
        extra_conditions == ex.conditions \o pu.conditions
        all_conditions ==
            (IF rhs_fields # <<>>
             THEN <<F("$expr", 0,
                      <<F("$and", 0,
                          [i \in DOMAIN rhs_fields |->
                              Op2("$eq", F("$$parent__field__", i - 1, <<>>),
                                         F("column", rhs_fields[i], <<>>))])>>)>>
             ELSE <<>>)
            \o extra_conditions
        sub_pipeline ==
            IF Len(all_conditions) = 0 THEN <<>>
            ELSE IF Len(all_conditions) = 1
                 THEN <<[op |-> "$match", cond |-> all_conditions[1]]>>
                 ELSE <<[op |-> "$match", cond |-> F("$and", 0, all_conditions)]>>
        lookup == [op |-> "$lookup", from |-> self.table_name, pipeline |-> sub_pipeline,
                   as |-> self.table_alias,
                   localField |-> local_field, foreignField |-> foreign_field,
                   let |-> lhs_fields]
    IN <<lookup>> \o Placeholder(self)
       \o <<[op |-> "$unwind", field |-> self.table_alias]>>

\* ---- the joins lowered ---------------------------------------------------
RECURSIVE JoinFields(_)
JoinFields(n) ==
    IF n = 0 THEN {<<>>}
    ELSE {Append(ps, JoinPair(fk, ls, rs, n)) :
             ps \in JoinFields(n - 1), fk \in BOOLEAN, ls \in BOOLEAN, rs \in BOOLEAN}
Expressions(id) ==
    {NoExpression, Expression(id, <<"joined">>), Expression(id, <<"parent", "joined">>)}
Joins ==
    {[join_type |-> jt, join_fields |-> jf, extra |-> ex,
      table_name |-> "table_name", table_alias |-> "table_alias"] :
        jt \in {"INNER", "LOUTER"},
        jf \in UNION {JoinFields(n) : n \in 1..MaxPairs},
        ex \in Expressions(1)}
\* what $lookup leaves in the row: an array of the documents found, or (as
\* the placeholder stage provides for) no field at all
Found == {[present |-> FALSE, n |-> 0]} \cup {[present |-> TRUE, n |-> n] : n \in 0..MaxMatches}

\* A join waiting to be lowered, with the other components idle
InitJoin ==
    /\ join_args \in {[self |-> j, pushed_filter_expression |-> pf, found |-> fd] :
                         j \in Joins, pf \in Expressions(2), fd \in Found}
    /\ join_out = <<>>
    /\ join_rows = <<>>
    /\ join_pos = 0
    /\ session = 0
    /\ in_atomic_block_mongo = FALSE
    /\ nested_atomics = 0
    /\ run_on_commit = <<>>
    /\ connection = FALSE
    /\ open_txns = {}
    /\ last_session = 0
    /\ trace = <<>>
    /\ raised = "none"
    /\ last_op = [op |-> "init", depth |-> -1, exc |-> FALSE, had_session |-> FALSE,
                  queued |-> <<>>]
    /\ began_in_NONE = FALSE
    /\ pool_closed = FALSE
    /\ peak_nested = 0
    /\ case_args = 0 /\ case_mql = 0 /\ case_done = FALSE
    /\ _connection_pools = 0 /\ pc = 0 /\ conn = 0 /\ returned = 0 /\ pool_clients = {} /\ deleted = FALSE
    /\ column_indices = {} /\ col_refs = <<>> /\ let_bound = 0
    /\ calls = <<>>
    /\ idx_where = 0 /\ idx_mql = 0 /\ idx_done = FALSE
    /\ sub_args = 0 /\ sub_query = 0 /\ sub_pipe = <<>> /\ sub_docs = <<>> /\ sub_row = 0 /\ sub_pos = 0
    /\ bundle = 0 /\ pipeline = <<>> /\ pipe_done = FALSE
    /\ node = 0 /\ as_expr = FALSE /\ lowered = 0 /\ where_done = FALSE
    /\ pred = 0 /\ path_mql = 0 /\ expr_mql = 0

\* the value of the joined field in a row
Joined(t, items) == [t |-> t, items |-> items]

\* what the database makes of the rows at a stage of the lookup_pipeline
RECURSIVE Unwind(_)
Unwind(rows) ==
    IF rows = <<>> THEN <<>>
    ELSE (IF Head(rows).t = "array"
          THEN [i \in DOMAIN Head(rows).items |-> Joined("doc", <<Head(rows).items[i]>>)]
          ELSE <<>>)
         \o Unwind(Tail(rows))
RunStageOn(stage, rows, found) ==
    CASE stage.op = "$lookup" ->
            [i \in DOMAIN rows |->
                IF found.present THEN Joined("array", [k \in 1..found.n |-> k])
                ELSE Joined("missing", <<>>)]
      [] stage.op = "$set" ->
            [i \in DOMAIN rows |->
                IF rows[i].t = "missing" \/ (rows[i].t = "array" /\ Len(rows[i].items) = 0)
                THEN Joined("array", stage.then) ELSE rows[i]]
      [] stage.op = "$unwind" -> Unwind(rows)

\* join(compiler, connection, pushed_filter_expression)
Join ==
    /\ join_pos = 0
    /\ join_out' = join(join_args.self, join_args.pushed_filter_expression)
    /\ join_rows' = <<Joined("missing", <<>>)>>
    /\ join_pos' = 1
    /\ UNCHANGED <<join_args, txnVars, pipeVars, whereVars, lookupVars, subqueryVars, indexVars, errorVars, captureVars, poolVars, caseVars>>

\* the database runs the next stage on the outer row
RunStage ==
    /\ join_pos \in 1..Len(join_out)
    /\ join_rows' = RunStageOn(join_out[join_pos], join_rows, join_args.found)
    /\ join_pos' = join_pos + 1
    /\ UNCHANGED <<join_args, join_out, txnVars, pipeVars, whereVars, lookupVars, subqueryVars, indexVars, errorVars, captureVars, poolVars, caseVars>>

JoinNext == Join \/ RunStage

SpecJoin == InitJoin /\ [][JoinNext]_vars

(***************************************************************************)
(* Properties of the join lowering.                                        *)
(***************************************************************************)
JoinRan == join_pos = Len(join_out) + 1
Placeholders == SelectSeq(join_out, LAMBDA st : st.op = "$set")

\* C14: the stages of a join keep its cardinality. Not INNER: an outer row
\* whose lookup array is absent or empty gives exactly one row, holding the
\* empty placeholder document, and one with k >= 1 documents found gives k
\* rows. INNER: an outer row with nothing found gives no row, and no
\* placeholder stage is emitted.
C14_JoinCardinality ==
    JoinRan =>
        LET found == join_args.found
            none == ~found.present \/ found.n = 0
        IN /\ (join_args.self.join_type # "INNER" /\ none) =>
                  join_rows = <<Joined("doc", <<0>>)>>
           /\ (found.present /\ found.n >= 1) =>
                  join_rows = [k \in 1..found.n |-> Joined("doc", <<k>>)]
           /\ (join_args.self.join_type = "INNER") =>
                  /\ Placeholders = <<>>
                  /\ none => join_rows = <<>>
           /\ (join_args.self.join_type # "INNER") => Len(Placeholders) = 1

\* C14 witness: a LEFT OUTER join that found nothing gave the one placeholder
\* row, through $lookup, $set and $unwind.
C14_Witness ==
    /\ JoinRan /\ join_args.self.join_type = "LOUTER"
    /\ join_args.found = [present |-> TRUE, n |-> 0]
    /\ Len(join_out) = 3 /\ join_out[2].op = "$set" /\ join_out[3].op = "$unwind"
    /\ join_rows = <<Joined("doc", <<0>>)>>

\* the conjuncts of the $match of the $lookup's sub-pipeline
Conjuncts(lookup) ==
    IF lookup.pipeline = <<>> THEN <<>>
    ELSE IF lookup.pipeline[1].cond.op = "$and" THEN lookup.pipeline[1].cond.args
         ELSE <<lookup.pipeline[1].cond>>
\* the pushed filter (the Where expression 2) among them
PushedConjuncts(lookup) ==
    SelectSeq(Conjuncts(lookup), LAMBDA c : c.op = "where" /\ c.id = 2)

\* C15: a pushed filter is folded into the sub-pipeline of the join only when
\* the join is INNER. For a LEFT OUTER join the stages emitted (sub-pipeline,
\* let bindings and all) are those emitted without a pushed filter; for an
\* INNER join the pushed predicate is one conjunct of the sub-pipeline's
\* $match.
C15_PushedFilterInnerOnly ==
    (join_pos >= 1) =>
        LET self == join_args.self
            pushed == join_args.pushed_filter_expression
        IN /\ self.join_type # "INNER" =>
                 /\ join_out = join(self, NoExpression)
                 /\ PushedConjuncts(join_out[1]) = <<>>
           /\ (self.join_type = "INNER" /\ pushed # NoExpression) =>
                 /\ Len(join_out[1].pipeline) = 1
                 /\ Len(PushedConjuncts(join_out[1])) = 1
                 /\ Len(PushedConjuncts(join_out[1])[1].args) = Len(pushed.cols)
           /\ pushed = NoExpression => PushedConjuncts(join_out[1]) = <<>>

\* C15 witness: an INNER join on a pair of expressions, with an extra
\* restriction and a pushed filter over a column of each table: the $match is
\* an $and of three, the pushed filter last, and let binds three fields.
C15_Witness ==
    /\ join_pos >= 1 /\ join_args.self.join_type = "INNER"
    /\ join_args.pushed_filter_expression = Expression(2, <<"parent", "joined">>)
    /\ join_args.self.extra = Expression(1, <<"parent", "joined">>)
    /\ Len(Conjuncts(join_out[1])) = 3
    /\ Conjuncts(join_out[1])[3] =
          F("where", 2, <<F("$parent__field__", 2, <<>>), F("column", 0, <<>>)>>)
    /\ Len(join_out[1].let) = 3

\* ---- the two ways a pair is joined ----------------------------------------
\* a pair that compares a simple column to a simple column, one of them a
\* foreign key
Qualifies(p) == p.lhs_simple /\ p.rhs_simple /\ p.is_fk
QualifyingPairs(self) == SelectSeq(self.join_fields, Qualifies)
GeneralPairs(self) == SelectSeq(self.join_fields, LAMBDA p : ~Qualifies(p))
\* the lookup matches by localField / foreignField
DirectKeys(lookup) == lookup.localField # 0 /\ lookup.foreignField # 0
\* the equalities against let parameters in the sub-pipeline's $match
PairEqualities(lookup) ==
    LET first == Conjuncts(lookup)
    IN IF first # <<>> /\ first[1].op = "$expr" THEN first[1].args[1].args ELSE <<>>
\* the general pairs are the equalities, in their order, each against the
\* parameter bound to its left-hand side
GeneralPairsCompiled(self, lookup) ==
    LET general == GeneralPairs(self)
    IN /\ Len(PairEqualities(lookup)) = Len(general)
       /\ Len(lookup.let) >= Len(general)
       /\ \A k \in DOMAIN general :
             /\ PairEqualities(lookup)[k] =
                   Op2("$eq", F("$$parent__field__", k - 1, <<>>),
                              F("column", general[k].rhs, <<>>))
             /\ lookup.let[k] = general[k].lhs
\* no qualifying pair has a parameter or an equality
QualifyingPairsDirect(self, lookup) ==
    \A k \in DOMAIN QualifyingPairs(self) :
        LET q == QualifyingPairs(self)[k]
        IN /\ \A i \in DOMAIN lookup.let : lookup.let[i] # q.lhs
           /\ \A i \in DOMAIN PairEqualities(lookup) :
                 PairEqualities(lookup)[i].args[2] # F("column", q.rhs, <<>>)

EnforcedDirectly(p, lookup) ==
    lookup.localField = p.lhs /\ lookup.foreignField = p.rhs
\* the pair is an equality of the sub-pipeline against a parameter that let
\* binds to the pair's own left-hand side
EnforcedByEquality(p, lookup) ==
    \E i \in DOMAIN PairEqualities(lookup) :
        /\ PairEqualities(lookup)[i].op = "$eq"
        /\ PairEqualities(lookup)[i].args[2] = F("column", p.rhs, <<>>)
        /\ PairEqualities(lookup)[i].args[1].op = "$$parent__field__"
        /\ PairEqualities(lookup)[i].args[1].id + 1 \in DOMAIN lookup.let
        /\ lookup.let[PairEqualities(lookup)[i].args[1].id + 1] = p.lhs
\* the parameters the extra and the pushed conditions refer to
ExtraParameters(lookup) ==
    UNION {{Conjuncts(lookup)[i].args[k].id :
               k \in {k \in DOMAIN Conjuncts(lookup)[i].args :
                         Conjuncts(lookup)[i].args[k].op = "$parent__field__"}} :
           i \in {i \in DOMAIN Conjuncts(lookup) : Conjuncts(lookup)[i].op = "where"}}
\* the parameters of the equalities of the pairs
PairParameters(lookup) ==
    {PairEqualities(lookup)[i].args[1].id : i \in DOMAIN PairEqualities(lookup)}

\* C28 as stated: every pair of the join is enforced by the lookup, either
\* as its localField / foreignField or as an equality against the parameter
\* bound to the pair's left-hand side; every parameter the sub-pipeline
\* refers to is bound in let; and no parameter of an extra or pushed
\* condition is the parameter of a pair.
C28_EveryPairEnforced ==
    (join_pos >= 1) =>
        LET self == join_args.self
            lookup == join_out[1]
        IN /\ \A k \in DOMAIN self.join_fields :
                 \/ EnforcedDirectly(self.join_fields[k], lookup)
                 \/ EnforcedByEquality(self.join_fields[k], lookup)
           /\ \A i \in PairParameters(lookup) \cup ExtraParameters(lookup) :
                 i + 1 \in DOMAIN lookup.let
           /\ PairParameters(lookup) \cap ExtraParameters(lookup) = {}

\* The part of C28 about the parameters alone, and the pairs of a join with
\* at most one pair that qualifies for localField / foreignField.
C28_EnforcedWithOneDirectPair ==
    (join_pos >= 1) =>
        LET self == join_args.self
            lookup == join_out[1]
        IN /\ Len(QualifyingPairs(self)) <= 1 =>
                 \A k \in DOMAIN self.join_fields :
                     \/ EnforcedDirectly(self.join_fields[k], lookup)
                     \/ EnforcedByEquality(self.join_fields[k], lookup)
           /\ \A i \in PairParameters(lookup) \cup ExtraParameters(lookup) :
                 i + 1 \in DOMAIN lookup.let
           /\ PairParameters(lookup) \cap ExtraParameters(lookup) = {}
           /\ Cardinality(PairParameters(lookup)) = Len(GeneralPairs(self))

\* Two pairs that both qualify: only the second is in the lookup.
C28_FirstPairDropped ==
    /\ join_pos >= 1 /\ Len(join_args.self.join_fields) = 2
    /\ Qualifies(join_args.self.join_fields[1])
    /\ Qualifies(join_args.self.join_fields[2])
    /\ EnforcedDirectly(join_args.self.join_fields[2], join_out[1])
    /\ ~EnforcedDirectly(join_args.self.join_fields[1], join_out[1])
    /\ ~EnforcedByEquality(join_args.self.join_fields[1], join_out[1])

(***************************************************************************)
(* Subqueries: query() and the pipeline that wraps an IN subquery.         *)
(***************************************************************************)
\* A wrapping pipeline whose projection has no default for the empty group.
get_subquery_wrapping_pipeline_NoDefault(field_name, expr) ==
    <<Stage("$facet", "wrapping", [group_id |-> None, out |-> "tmp_name",
                                   acc |-> "$addToSet", expr |-> expr]),
      Stage("$project", "wrapping", [field |-> field_name, from |-> "tmp_name",
                                     ifNull |-> FALSE])>>

\* get_subquery_wrapping_pipeline
get_subquery_wrapping_pipeline(field_name, expr) ==
    <<Stage("$facet", "wrapping", [group_id |-> None, out |-> "tmp_name",
                                   acc |-> "$addToSet", expr |-> expr]),
      Stage("$project", "wrapping", [field |-> field_name, from |-> "tmp_name",
                                     ifNull |-> TRUE])>>

\* query(): the MongoQuery built for the subquery and registered as
\* compiler.subqueries[registered], and the reference returned. combinator:
\* the subquery is a union; wrap: get_wrapping_pipeline was passed
query(combinator, registered, wrap, ae) ==
    LET built == [EmptyQuery EXCEPT
                     !.project_fields = 1,
                     !.combinator_pipeline =
                         IF combinator
                         THEN <<Stage("$unionWith", "combinator_pipeline", 1)>> ELSE <<>>,
                     !.subquery_lookup =
                         [set |-> TRUE, as |-> registered, from |-> 1, let |-> 0]]
        wrapping_result_pipeline == get_subquery_wrapping_pipeline("field_name", "expr")
        subquery ==
            IF ~wrap THEN built
            ELSE IF combinator
                 THEN [built EXCEPT
                          !.combinator_pipeline = @ \o wrapping_result_pipeline,
                          !.project_fields = 0]
                 ELSE [built EXCEPT
                          !.aggregation_pipeline = @ \o wrapping_result_pipeline,
                          !.project_fields = 0]
    IN [subquery |-> subquery,
        mql |-> F(IF ae THEN "$__subquery.field_name" ELSE "__subquery.field_name",
                  registered, <<>>)]

\* Value(False).as_mql(compiler, connection, as_expr=True)
LiteralFalse == F("$literal", 0, <<Raw(Bool(FALSE))>>)

\* subquery(): self.query.as_mql(...). Compiling the subquery's WHERE raises
\* EmptyResultSet in build_query, before compiler.subqueries.append; else the
\* subquery is registered behind those in subqueries
subquery(args, subqueries) ==
    IF args.empty
    THEN [sig |-> "EmptyResultSet", mql |-> Blank, subqueries |-> subqueries]
    ELSE LET q == query(args.combinator, Len(subqueries), args.wrap, TRUE)
         IN [sig |-> "mql", mql |-> q.mql, subqueries |-> Append(subqueries, q.subquery)]

\* An existence test that lets the signal through.
exists_NoShortCircuit(args, subqueries) ==
    LET r == subquery(args, subqueries)
    IN [r EXCEPT !.mql = mongo_expr_operators("isnull", r.mql, FALSE)]

\* exists
exists(args, subqueries) ==
    LET r == subquery(args, subqueries)
    IN IF r.sig = "EmptyResultSet"
       THEN [r EXCEPT !.sig = "mql", !.mql = LiteralFalse]
       ELSE [r EXCEPT !.mql = mongo_expr_operators("isnull", r.mql, FALSE)]

\* what is kept of a compilation: the subquery registered (0: none), the
\* document returned and the number of subqueries on the outer compiler
Compiled(r) ==
    [subquery |-> IF r.subqueries = <<>> THEN 0 ELSE r.subqueries[Len(r.subqueries)],
     mql |-> r.mql, sig |-> r.sig, registered |-> Len(r.subqueries)]

\* ---- the subqueries compiled and run -------------------------------------
\* the values a row of the subquery may give for its column
RowValues == {None} \cup Nums
RECURSIVE RowLists(_)
RowLists(n) ==
    IF n = 0 THEN {<<>>}
    ELSE {Append(rs, v) : rs \in RowLists(n - 1), v \in RowValues}
\* exists: the subquery is under Exists() (else on the right of a lookup),
\* whose query selects the constant 1 and nothing else; empty: compiling its
\* WHERE raises EmptyResultSet
SubqueryArgs ==
    {[rows |-> rs, combinator |-> cb, union |-> un, wrap |-> w, outer |-> o,
      exists |-> ex, empty |-> em] :
        rs \in UNION {RowLists(n) : n \in 0..MaxRows},
        cb \in BOOLEAN, un \in RowLists(0) \cup RowLists(1), w \in BOOLEAN,
        o \in DocValues, ex \in BOOLEAN, em \in BOOLEAN}

\* A subquery waiting to be compiled, with the other components idle
InitSubquery ==
    /\ sub_args \in {a \in SubqueryArgs :
                         /\ ~a.combinator => a.union = <<>>
                         /\ a.exists =>
                               /\ ~a.wrap /\ a.outer = Missing
                               /\ \A i \in DOMAIN a.rows : a.rows[i] = Num(1)
                               /\ \A i \in DOMAIN a.union : a.union[i] = Num(1)
                         /\ a.empty => a.rows = <<>>}
    /\ sub_query = 0
    /\ sub_pipe = <<>>
    /\ sub_docs = <<>>
    /\ sub_row = Joined("missing", <<>>)
    /\ sub_pos = 0
    /\ session = 0
    /\ in_atomic_block_mongo = FALSE
    /\ nested_atomics = 0
    /\ run_on_commit = <<>>
    /\ connection = FALSE
    /\ open_txns = {}
    /\ last_session = 0
    /\ trace = <<>>
    /\ raised = "none"
    /\ last_op = [op |-> "init", depth |-> -1, exc |-> FALSE, had_session |-> FALSE,
                  queued |-> <<>>]
    /\ began_in_NONE = FALSE
    /\ pool_closed = FALSE
    /\ peak_nested = 0
    /\ case_args = 0 /\ case_mql = 0 /\ case_done = FALSE
    /\ _connection_pools = 0 /\ pc = 0 /\ conn = 0 /\ returned = 0 /\ pool_clients = {} /\ deleted = FALSE
    /\ column_indices = {} /\ col_refs = <<>> /\ let_bound = 0
    /\ calls = <<>>
    /\ idx_where = 0 /\ idx_mql = 0 /\ idx_done = FALSE
    /\ bundle = 0 /\ pipeline = <<>> /\ pipe_done = FALSE
    /\ node = 0 /\ as_expr = FALSE /\ lowered = 0 /\ where_done = FALSE
    /\ pred = 0 /\ path_mql = 0 /\ expr_mql = 0
    /\ join_args = 0 /\ join_out = <<>> /\ join_rows = <<>> /\ join_pos = 0

\* the values of a set as an array; $addToSet leaves the order unspecified
\* and $in does not look at it, so the array is kept ascending
RECURSIVE ArrayOf(_)
ArrayOf(S) ==
    IF S = {} THEN <<>>
    ELSE LET m == CHOOSE x \in S : \A y \in S : x = y \/ Less(x, y)
         IN <<m>> \o ArrayOf(S \ {m})

\* what the database makes of the documents at a stage of the sub-pipeline
RunSubStageOn(stage, docs, union) ==
    CASE stage.op = "$unionWith" -> docs \o [i \in DOMAIN union |-> [column |-> union[i]]]
      [] stage.op = "$project" /\ stage.of = "project_fields" -> docs
      [] stage.op = "$facet" ->
            <<[group |-> IF docs = <<>> THEN <<>>
                         ELSE <<[tmp_name |-> ArrayOf({docs[i].column : i \in DOMAIN docs})]>>]>>
      [] stage.op = "$project" /\ stage.of = "wrapping" ->
            [i \in DOMAIN docs |->
                IF docs[i].group # <<>> THEN [field_name |-> docs[i].group[1].tmp_name]
                ELSE IF stage.arg.ifNull THEN [field_name |-> <<>>]
                     ELSE [no_field |-> TRUE]]

\* the empty object
EmptyObject == Joined("doc", <<[no_field |-> TRUE]>>)
\* what the database makes of the looked-up field at the $set stage: the
\* tests of the $cond in their order, then "then" or "else"; $arrayElemAt of
\* what is no array, or beyond its end, gives no value
RunSet(stage, row) ==
    LET holds(test) ==
            CASE test = "missing" -> row.t = "missing"
              [] test = "size0" -> row.t = "array" /\ Len(row.items) = 0
        hit == \E i \in DOMAIN stage.arg.if : holds(stage.arg.if[i])
    IN IF hit THEN EmptyObject
       ELSE IF row.t = "array" /\ Len(row.items) >= 1
            THEN Joined("doc", <<row.items[1]>>)
            ELSE Joined("missing", <<>>)

\* rhs.as_mql(compiler, connection, get_wrapping_pipeline=..., as_expr=True)
QueryAsMql ==
    /\ sub_pos = 0 /\ ~sub_args.exists
    /\ LET r == subquery(sub_args, <<>>)
       IN IF r.sig = "EmptyResultSet"
          THEN sub_query' = Compiled(r) /\ sub_pos' = -1
          ELSE /\ sub_query' = query(sub_args.combinator, 0, sub_args.wrap, TRUE)
               /\ sub_pos' = 1
    /\ UNCHANGED <<sub_args, sub_pipe, sub_docs, sub_row>>
    /\ UNCHANGED <<txnVars, pipeVars, whereVars, lookupVars, joinVars, indexVars, errorVars, captureVars, poolVars, caseVars>>

\* Exists(...).as_mql(compiler, connection)
ExistsAsMql ==
    /\ sub_pos = 0 /\ sub_args.exists
    /\ LET r == exists(sub_args, <<>>)
       IN /\ sub_query' = Compiled(r)
          /\ sub_pos' = IF r.subqueries = <<>> THEN -1 ELSE 1
    /\ UNCHANGED <<sub_args, sub_pipe, sub_docs, sub_row>>
    /\ UNCHANGED <<txnVars, pipeVars, whereVars, lookupVars, joinVars, indexVars, errorVars, captureVars, poolVars, caseVars>>

\* the outer get_pipeline() reaches compiler.subqueries[0].get_pipeline()
SubqueryGetPipeline ==
    /\ sub_pos = 1
    /\ sub_pipe' = get_pipeline(sub_query.subquery)
    /\ sub_docs' = [i \in DOMAIN sub_args.rows |-> [column |-> sub_args.rows[i]]]
    /\ sub_pos' = 2
    /\ UNCHANGED <<sub_args, sub_query, sub_row>>
    /\ UNCHANGED <<txnVars, pipeVars, whereVars, lookupVars, joinVars, indexVars, errorVars, captureVars, poolVars, caseVars>>

\* the database runs the next stage of the $lookup's pipeline
RunSubStage ==
    /\ sub_pos >= 2 /\ sub_pos - 1 <= Len(sub_pipe[1].pipeline)
    /\ sub_docs' = RunSubStageOn(sub_pipe[1].pipeline[sub_pos - 1], sub_docs, sub_args.union)
    /\ sub_pos' = sub_pos + 1
    /\ UNCHANGED <<sub_args, sub_query, sub_pipe, sub_row>>
    /\ UNCHANGED <<txnVars, pipeVars, whereVars, lookupVars, joinVars, indexVars, errorVars, captureVars, poolVars, caseVars>>

\* $lookup stores what its pipeline gave as an array in the outer row
RunSubLookup ==
    /\ sub_pos >= 2 /\ sub_pos = Len(sub_pipe[1].pipeline) + 2
    /\ sub_row' = Joined("array", sub_docs)
    /\ sub_pos' = sub_pos + 1
    /\ UNCHANGED <<sub_args, sub_query, sub_pipe, sub_docs>>
    /\ UNCHANGED <<txnVars, pipeVars, whereVars, lookupVars, joinVars, indexVars, errorVars, captureVars, poolVars, caseVars>>

\* $set replaces the array by its first document, or by {} when there is none
RunSubSet ==
    /\ sub_pos >= 2 /\ sub_pos = Len(sub_pipe[1].pipeline) + 3
    /\ sub_pipe[2].op = "$set"
    /\ sub_row' = RunSet(sub_pipe[2], sub_row)
    /\ sub_pos' = sub_pos + 1
    /\ UNCHANGED <<sub_args, sub_query, sub_pipe, sub_docs>>
    /\ UNCHANGED <<txnVars, pipeVars, whereVars, lookupVars, joinVars, indexVars, errorVars, captureVars, poolVars, caseVars>>

SubqueryNext ==
    QueryAsMql \/ ExistsAsMql \/ SubqueryGetPipeline \/ RunSubStage \/ RunSubLookup \/ RunSubSet

SpecSubquery == InitSubquery /\ [][SubqueryNext]_vars

(***************************************************************************)
(* Properties of the IN subquery.                                          *)
(***************************************************************************)
SubqueryRan == sub_pos >= 2 /\ sub_pos = Len(sub_pipe[1].pipeline) + 4
\* the values the subquery returns
ResultValues ==
    {sub_args.rows[i] : i \in DOMAIN sub_args.rows}
    \cup {sub_args.union[i] : i \in DOMAIN sub_args.union}
\* {"$in": [outer column, reference]} on the outer row: $in fails on what is
\* no array
InSubquerySelects ==
    IF "field_name" \in DOMAIN sub_row.items[1]
    THEN \E i \in DOMAIN sub_row.items[1].field_name :
            sub_row.items[1].field_name[i] = sub_args.outer
    ELSE "error"
\* {"$in": [outer column, [the values]]}
InLiteralSelects == \E v \in ResultValues : v = sub_args.outer

\* C16: IN against a subquery selects the outer rows that IN against the list
\* of the subquery's result values selects: the wrapping pipeline leaves one
\* array holding exactly the set of the values (each once), the empty array
\* when the subquery returns no row, so that no outer row matches then.
C16_InSubqueryAsLiteralList ==
    (SubqueryRan /\ sub_args.wrap) =>
        /\ sub_row.t = "doc"
        /\ "field_name" \in DOMAIN sub_row.items[1]
        /\ LET array == sub_row.items[1].field_name
           IN /\ {array[i] : i \in DOMAIN array} = ResultValues
              /\ Len(array) = Cardinality(ResultValues)
              /\ ResultValues = {} => array = <<>> /\ InSubquerySelects = FALSE
        /\ InSubquerySelects = InLiteralSelects

\* C16 witness: a subquery returning the same value twice was collapsed to
\* the one-element array, and the outer row holding that value is selected.
C16_Witness ==
    /\ SubqueryRan /\ sub_args.wrap /\ ~sub_args.combinator
    /\ sub_args.rows = <<Num(1), Num(1)>>
    /\ sub_args.outer = Num(1)
    /\ sub_row = Joined("doc", <<[field_name |-> <<Num(1)>>]>>)
    /\ InSubquerySelects = TRUE

\* ---- the existence test ---------------------------------------------------
\* an expression with the reference to the subquery's result field put for
\* the field evaluated
RECURSIVE OnResultField(_)
OnResultField(e) ==
    IF e.op = "$__subquery.field_name" THEN F("$field", 0, <<>>)
    ELSE [e EXCEPT !.args = [i \in DOMAIN e.args |-> OnResultField(e.args[i])]]
\* the value of $__subquery0.field_name in the outer row
ResultField ==
    IF sub_row.t = "doc" /\ "column" \in DOMAIN sub_row.items[1]
    THEN sub_row.items[1].column ELSE Missing
\* whether the compiled existence test selects the outer row
ExistsSelects == Truthy(EvalExpr(OnResultField(sub_query.mql), ResultField))
\* the rows the subquery yields for the outer row
RowsYielded == Len(sub_args.rows) + Len(sub_args.union)

\* C25: an existence test whose subquery raises EmptyResultSet compiles to
\* the literal false and registers no subquery on the outer compiler;
\* otherwise it registers the subquery and compiles to the test that the
\* result field is neither absent nor null, which selects an outer row exactly
\* when the subquery yields at least one row for it.
C25_ExistsTest ==
    (sub_args.exists /\ sub_pos # 0) =>
        /\ sub_args.empty =>
              sub_query.mql = LiteralFalse /\ sub_query.registered = 0
        /\ ~sub_args.empty =>
              /\ sub_query.registered = 1
              /\ \A val \in DocValues :
                    Truthy(EvalExpr(OnResultField(sub_query.mql), val))
                       = (val \notin {Missing, None})
              /\ SubqueryRan => (ExistsSelects = (RowsYielded >= 1))

\* C25 witness: an existence test over a subquery that yields two rows for
\* the outer row: the subquery was registered and run, the result field holds
\* the first row's column and the test selects the row.
C25_Witness ==
    /\ sub_args.exists /\ ~sub_args.empty /\ SubqueryRan
    /\ Len(sub_args.rows) = 2
    /\ sub_query.registered = 1 /\ sub_query.mql.op = "$not"
    /\ ResultField = Num(1)
    /\ ExistsSelects

(***************************************************************************)
(* Properties of the pipeline wrapped as a subquery.                       *)
(***************************************************************************)
\* p holds the stages of q in the order search, joins, subqueries, $match,
\* aggregation, $project, combinator, $addFields, $sort, $skip, $limit
OrderedStages(p, q) ==
    /\ \A i, j \in DOMAIN p : i < j => Rank(p[i]) <= Rank(p[j])
    /\ From(p, "search_pipeline") = q.search_pipeline
    /\ From(p, "lookup_pipeline") = q.lookup_pipeline
    /\ From(p, "aggregation_pipeline") = q.aggregation_pipeline
    /\ From(p, "combinator_pipeline") = q.combinator_pipeline
    /\ Len(From(p, "subquery_lookup")) = 2 * Len(q.subqueries)
    /\ OneOrNone(p, "match_mql", "$match", q.match_mql # 0, q.match_mql)
    /\ OneOrNone(p, "project_fields", "$project", q.project_fields # 0, q.project_fields)
    /\ OneOrNone(p, "extra_fields", "$addFields", q.extra_fields # 0, q.extra_fields)
    /\ OneOrNone(p, "ordering", "$sort", q.ordering # 0, q.ordering)
    /\ OneOrNone(p, "low_mark", "$skip", q.low_mark > 0, q.low_mark)
    /\ OneOrNone(p, "high_mark", "$limit", q.high_mark # NoMark, q.high_mark - q.low_mark)

\* what $lookup may have left in the output field, and the absent field
LookedUp ==
    {Joined("missing", <<>>), Joined("array", <<>>),
     Joined("array", <<[column |-> Num(0)]>>),
     Joined("array", <<[column |-> Num(1)], [column |-> Num(0)]>>)}

\* C22: for a bundle whose subquery lookup is set, get_pipeline returns two
\* stages and no more: a $lookup that embeds the bundle's whole ordered stage
\* list and takes let, from and the output name from the subquery lookup, and
\* a $set on the same output name that leaves the empty object when the
\* looked-up array is missing or empty and its first element otherwise; no
\* stage of the bundle stands at the outer level.
C22_WrappedSubquery ==
    (pipe_done /\ bundle.subquery_lookup.set) =>
        /\ Len(pipeline) = 2
        /\ \A i \in DOMAIN pipeline : pipeline[i].of = "subquery_lookup"
        /\ pipeline[1].op = "$lookup"
        /\ pipeline[1].as = bundle.subquery_lookup.as
        /\ pipeline[1].let = bundle.subquery_lookup.let
        /\ pipeline[1].from = bundle.subquery_lookup.from
        /\ OrderedStages(pipeline[1].pipeline, bundle)
        /\ pipeline[2].op = "$set"
        /\ pipeline[2].as = bundle.subquery_lookup.as
        /\ \A row \in LookedUp :
              RunSet(pipeline[2], row) =
                 IF row.t = "missing" \/ row.items = <<>> THEN EmptyObject
                 ELSE Joined("doc", <<row.items[1]>>)

\* C22 witness: a wrapped bundle with every fragment, two subqueries, a skip
\* and a limit, returned as $lookup and $set with sixteen stages inside.
C22_Witness ==
    /\ pipe_done /\ bundle.subquery_lookup.set
    /\ bundle.search_pipeline # <<>> /\ bundle.lookup_pipeline # <<>>
    /\ Len(bundle.subqueries) = 2 /\ bundle.match_mql # 0
    /\ bundle.aggregation_pipeline # <<>> /\ bundle.project_fields # 0
    /\ bundle.combinator_pipeline # <<>> /\ bundle.extra_fields # 0
    /\ bundle.ordering # 0 /\ bundle.low_mark > 0 /\ bundle.high_mark # NoMark
    /\ Len(pipeline) = 2 /\ pipeline[1].op = "$lookup" /\ pipeline[2].op = "$set"
    /\ Len(pipeline[1].pipeline) = 16

(***************************************************************************)
(* Index conditions: where_node_idx and builtin_lookup_idx.                *)
(***************************************************************************)
MONGO_INDEX_OPERATORS ==
    [exact |-> "$eq", gt |-> "$gt", gte |-> "$gte", lt |-> "$lt", lte |-> "$lte",
     in |-> "$in"]

\* builtin_lookup_idx
builtin_lookup_idx(self) ==
    LET value == process_rhs(self)
    IN IF self.name \in DOMAIN MONGO_INDEX_OPERATORS
       THEN Mql(Field("column",
                      F(MONGO_INDEX_OPERATORS[self.name], 0,
                        IF self.name = "in" THEN [i \in DOMAIN value |-> Raw(value[i])]
                        ELSE <<Raw(value)>>)))
       ELSE Raise("NotSupportedError")

\* A test of the node that lets negation through.
Refused_XorOnly(self) == self.connector = "XOR"

\* where_node_idx lines 87-94: the node is refused
Refused(self) == self.connector = "XOR" \/ self.negated

RECURSIVE where_node_idx(_)
RECURSIVE as_mql_idx(_)
RECURSIVE ChildrenIdx(_, _, _)

\* child.as_mql_idx(compiler, connection)
as_mql_idx(child) ==
    IF child.kind = "node" THEN where_node_idx(child) ELSE builtin_lookup_idx(child)

\* where_node_idx lines 95-98: a child that raises ends the loop
ChildrenIdx(self, rest, children_mql) ==
    IF rest = <<>>
    THEN LET operator == IF self.connector = "AND" THEN "$and" ELSE "$or"
         IN Mql(IF Len(children_mql) = 1 THEN children_mql[1]
                ELSE IF Len(children_mql) > 1 THEN F(operator, 0, children_mql)
                ELSE Blank)
    ELSE LET r == as_mql_idx(Head(rest))
         IN IF r.sig # "mql" THEN r
            ELSE ChildrenIdx(self, Tail(rest), Append(children_mql, r.mql))

\* where_node_idx
where_node_idx(self) ==
    IF Refused(self) THEN Raise("NotSupportedError")
    ELSE ChildrenIdx(self, self.children, <<>>)

\* ---- the conditions translated -------------------------------------------
\* one lookup of each name
OneOfEach == {Lookup(name, CHOOSE r \in RhsOf(name) : TRUE, TRUE) : name \in LookupNames}
\* a lookup, or a node of any connector, negated or not, over one lookup
IndexOperands ==
    Lookups(TRUE)
    \cup {LookupNode(<<l>>, c, neg) : l \in OneOfEach, c \in Connectors, neg \in BOOLEAN}
\* nodes over at most two such operands
IndexConditions ==
    {LookupNode(cs, c, neg) :
        cs \in {<<>>} \cup {<<x>> : x \in IndexOperands}
               \cup {<<x, y>> : x \in IndexOperands, y \in IndexOperands},
        c \in Connectors, neg \in BOOLEAN}

\* A condition waiting to be translated, with the other components idle
InitIndex ==
    /\ idx_where \in IndexConditions
    /\ idx_mql = Raise("none")
    /\ idx_done = FALSE
    /\ session = 0
    /\ in_atomic_block_mongo = FALSE
    /\ nested_atomics = 0
    /\ run_on_commit = <<>>
    /\ connection = FALSE
    /\ open_txns = {}
    /\ last_session = 0
    /\ trace = <<>>
    /\ raised = "none"
    /\ last_op = [op |-> "init", depth |-> -1, exc |-> FALSE, had_session |-> FALSE,
                  queued |-> <<>>]
    /\ began_in_NONE = FALSE
    /\ pool_closed = FALSE
    /\ peak_nested = 0
    /\ case_args = 0 /\ case_mql = 0 /\ case_done = FALSE
    /\ _connection_pools = 0 /\ pc = 0 /\ conn = 0 /\ returned = 0 /\ pool_clients = {} /\ deleted = FALSE
    /\ column_indices = {} /\ col_refs = <<>> /\ let_bound = 0
    /\ calls = <<>>
    /\ bundle = 0 /\ pipeline = <<>> /\ pipe_done = FALSE
    /\ node = 0 /\ as_expr = FALSE /\ lowered = 0 /\ where_done = FALSE
    /\ pred = 0 /\ path_mql = 0 /\ expr_mql = 0
    /\ join_args = 0 /\ join_out = <<>> /\ join_rows = <<>> /\ join_pos = 0
    /\ sub_args = 0 /\ sub_query = 0 /\ sub_pipe = <<>> /\ sub_docs = <<>> /\ sub_row = 0 /\ sub_pos = 0

\* _get_condition_mql: where.as_mql_idx(compiler, connection)
GetConditionMql ==
    /\ ~idx_done
    /\ idx_mql' = as_mql_idx(idx_where)
    /\ idx_done' = TRUE
    /\ UNCHANGED <<idx_where, txnVars, pipeVars, whereVars, lookupVars, joinVars, subqueryVars, errorVars, captureVars, poolVars, caseVars>>

IndexNext == GetConditionMql

SpecIndex == InitIndex /\ [][IndexNext]_vars

(***************************************************************************)
(* Properties of the index conditions.                                     *)
(***************************************************************************)
\* a tree of AND / OR nodes, none negated, over the six lookups
RECURSIVE InIndexSubset(_)
InIndexSubset(t) ==
    IF t.kind = "lookup" THEN t.name \in {"exact", "gt", "gte", "lt", "lte", "in"}
    ELSE /\ t.connector \in {"AND", "OR"} /\ ~t.negated
         /\ \A i \in DOMAIN t.children : InIndexSubset(t.children[i])

\* C17: the translation of an index condition returns a filter document only
\* for trees of AND / OR nodes over exact, gt, gte, lt, lte and in; a negated
\* node or an XOR node at any depth, or any other lookup, makes it raise
\* NotSupportedError, and nothing of a document is returned then.
C17_IndexSubsetOnly ==
    idx_done =>
        /\ (idx_mql.sig = "mql") = InIndexSubset(idx_where)
        /\ ~InIndexSubset(idx_where) => idx_mql = Raise("NotSupportedError")

\* C17 witness: an AND of a supported lookup and a negated node over a
\* supported lookup was refused.
C17_Witness ==
    /\ idx_done /\ idx_where.connector = "AND" /\ ~idx_where.negated
    /\ Len(idx_where.children) = 2
    /\ InIndexSubset(idx_where.children[1])
    /\ idx_where.children[2].kind = "node" /\ idx_where.children[2].negated
    /\ idx_where.children[2].connector = "OR"
    /\ InIndexSubset(idx_where.children[2].children[1])
    /\ idx_mql = Raise("NotSupportedError")

\* ---- nodes that keep no fragment ------------------------------------------
\* a child that leaves no fragment: it raises a signal or compiles to nothing
NoFragment(child) ==
    LET r == as_mql(child, as_expr)
    IN r.sig \in Signals \/ (r.sig = "mql" /\ r.mql = Blank)

\* the children do not make the node ALWAYS-FALSE: there are none, or fewer
\* of them are ALWAYS-FALSE than empty_needed starts at
NotEmptiedByChildren(self) ==
    \/ self.children = <<>>
    \/ Cardinality({i \in DOMAIN self.children : StaticFalse(self.children[i])})
          < empty_needed_init(self)

\* C19: an AND or OR node none of whose children leaves a fragment (a node
\* without children among them), and which its children do not make
\* ALWAYS-FALSE, is ALWAYS-TRUE, and the signal follows the node's polarity:
\* FullResultSet when the node is not negated, EmptyResultSet when it is.
C19_NoFragmentPolarity ==
    (where_done /\ node.connector \in {"AND", "OR"}
        /\ \A i \in DOMAIN node.children : NoFragment(node.children[i])
        /\ NotEmptiedByChildren(node)) =>
        lowered = Raise(IF node.negated THEN "EmptyResultSet" ELSE "FullResultSet")

\* ---- AND/OR trees ----------------------------------------------------------
\* a tree of AND/OR nodes, each with at least one child, over leaves that
\* return a fragment or raise a signal
RECURSIVE IsAndOrTree(_)
IsAndOrTree(t) ==
    IF t.kind = "node"
    THEN /\ t.connector \in {"AND", "OR"}
         /\ t.children # <<>>
         /\ \A i \in DOMAIN t.children : IsAndOrTree(t.children[i])
    ELSE t.kind \in {"frag", "empty", "full"}

\* true, or false, on every document
AlwaysTrue(t) == \A asg \in [LookupIds(t) -> BOOLEAN] : Truth(t, asg)
AlwaysFalse(t) == \A asg \in [LookupIds(t) -> BOOLEAN] : ~Truth(t, asg)

\* The fragment of a tree that is neither: the fragments of its operands that
\* are neither, in child order, a single one as it is and several under
\* $and / $or; negated ($nor, $not in EXPR mode) when the node is.
RECURSIVE FragmentOf(_, _)
FragmentOf(t, ae) ==
    IF t.kind = "frag" THEN F(IF ae THEN "expr" ELSE "path", t.id, <<>>)
    ELSE LET kept == SelectSeq(t.children, LAMBDA c : ~AlwaysTrue(c) /\ ~AlwaysFalse(c))
             frags == [i \in DOMAIN kept |-> FragmentOf(kept[i], ae)]
             body == IF Len(frags) = 1 THEN frags[1]
                     ELSE F(IF t.connector = "AND" THEN "$and" ELSE "$or", 0, frags)
         IN IF t.negated THEN F(IF ae THEN "$not" ELSE "$nor", 0, <<body>>) ELSE body

\* C20: on a tree of AND/OR nodes, each negated or not and each with at least
\* one child, over leaves that return a fragment or raise a signal, where_node
\* raises FullResultSet exactly when the tree is true on every document and
\* EmptyResultSet exactly when it is false on every document; otherwise it
\* returns a fragment that matches exactly the documents the tree is true on,
\* built from the operands that are not constant: one such operand's fragment
\* as it is, several in child order under $and / $or.
C20_AndOrSoundComplete ==
    (where_done /\ IsAndOrTree(node)) =>
        /\ lowered.sig \in Signals \cup {"mql"}
        /\ lowered.sig = "FullResultSet" <=> AlwaysTrue(node)
        /\ lowered.sig = "EmptyResultSet" <=> AlwaysFalse(node)
        /\ lowered.sig = "mql" =>
              /\ \A asg \in [LookupIds(node) -> BOOLEAN] :
                    Matches(lowered, asg) = Truth(node, asg)
              /\ lowered.mql = FragmentOf(node, as_expr)

\* C20 witness: a AND (b OR c) lowered in PATH mode to $and of a's fragment
\* and the $or of b's and c's.
C20_Witness ==
    /\ where_done /\ IsAndOrTree(node) /\ ~as_expr
    /\ node.connector = "AND" /\ ~node.negated /\ Len(node.children) = 2
    /\ node.children[1].kind = "frag"
    /\ node.children[2].kind = "node" /\ node.children[2].connector = "OR"
    /\ ~node.children[2].negated /\ Len(node.children[2].children) = 2
    /\ \A i \in 1..2 : node.children[2].children[i].kind = "frag"
    /\ lowered = Mql(F("$and", 0,
                       <<F("path", node.children[1].id, <<>>),
                         F("$or", 0, <<F("path", node.children[2].children[1].id, <<>>),
                                       F("path", node.children[2].children[2].id, <<>>)>>)>>))

(***************************************************************************)
(* Error mapping: wrap_database_errors.                                    *)
(***************************************************************************)
\* What the wrapped function does: it returns, or raises an exception of a
\* class, whose text holds "E11000 duplicate key error" or not.
Outcome(kind, cls, e11000) == [kind |-> kind, cls |-> cls, e11000 |-> e11000]
Returned == Outcome("return", "", FALSE)
\* pymongo.errors: the classes each class is an instance of
DriverClasses ==
    [BulkWriteError |-> {"BulkWriteError", "OperationFailure", "PyMongoError"},
     DuplicateKeyError |-> {"DuplicateKeyError", "WriteError", "OperationFailure",
                            "PyMongoError"},
     OperationFailure |-> {"OperationFailure", "PyMongoError"},
     ConnectionFailure |-> {"ConnectionFailure", "PyMongoError"}]
IsInstance(o, cls) ==
    o.kind = "raise" /\ o.cls \in DOMAIN DriverClasses /\ cls \in DriverClasses[o.cls]

\* wrap_database_errors: what the caller of the wrapper sees; an exception
\* raised inside an except clause is not caught by the clauses after it
wrap_database_errors(o) ==
    IF IsInstance(o, "BulkWriteError")
    THEN IF o.e11000 THEN Outcome("raise", "IntegrityError", FALSE) ELSE o
    ELSE IF IsInstance(o, "DuplicateKeyError") THEN Outcome("raise", "IntegrityError", FALSE)
    ELSE IF IsInstance(o, "PyMongoError") THEN Outcome("raise", "DatabaseError", FALSE)
    ELSE o

\* what the driver may do in a wrapped operation
DriverOutcomes ==
    {Returned, Outcome("raise", "NotSupportedError", FALSE)}
    \cup {Outcome("raise", "BulkWriteError", b) : b \in BOOLEAN}
    \cup {Outcome("raise", "DuplicateKeyError", TRUE)}
    \cup {Outcome("raise", c, FALSE) : c \in {"OperationFailure", "ConnectionFailure"}}

\* Nothing run yet, with the other components idle
InitErrors ==
    /\ calls = <<>>
    /\ session = 0
    /\ in_atomic_block_mongo = FALSE
    /\ nested_atomics = 0
    /\ run_on_commit = <<>>
    /\ connection = FALSE
    /\ open_txns = {}
    /\ last_session = 0
    /\ trace = <<>>
    /\ raised = "none"
    /\ last_op = [op |-> "init", depth |-> -1, exc |-> FALSE, had_session |-> FALSE,
                  queued |-> <<>>]
    /\ began_in_NONE = FALSE
    /\ pool_closed = FALSE
    /\ peak_nested = 0
    /\ case_args = 0 /\ case_mql = 0 /\ case_done = FALSE
    /\ _connection_pools = 0 /\ pc = 0 /\ conn = 0 /\ returned = 0 /\ pool_clients = {} /\ deleted = FALSE
    /\ column_indices = {} /\ col_refs = <<>> /\ let_bound = 0
    /\ bundle = 0 /\ pipeline = <<>> /\ pipe_done = FALSE
    /\ node = 0 /\ as_expr = FALSE /\ lowered = 0 /\ where_done = FALSE
    /\ pred = 0 /\ path_mql = 0 /\ expr_mql = 0
    /\ join_args = 0 /\ join_out = <<>> /\ join_rows = <<>> /\ join_pos = 0
    /\ sub_args = 0 /\ sub_query = 0 /\ sub_pipe = <<>> /\ sub_docs = <<>> /\ sub_row = 0 /\ sub_pos = 0
    /\ idx_where = 0 /\ idx_mql = 0 /\ idx_done = FALSE

\* what the caller of a wrapped operation records
Called(op, o) == [op |-> op, driver |-> o, caller |-> wrap_database_errors(o)]

\* MongoQuery.delete, wrapped: delete_many fails or returns, or the method
\* itself refuses a query that needs a subquery
Delete ==
    /\ Len(calls) < MaxCalls
    /\ \E o \in DriverOutcomes : calls' = Append(calls, Called("delete", o))
    /\ UNCHANGED <<txnVars, pipeVars, whereVars, lookupVars, joinVars, subqueryVars, indexVars, captureVars, poolVars, caseVars>>

\* MongoQuery.get_cursor, wrapped: aggregate fails or returns
GetCursor ==
    /\ Len(calls) < MaxCalls
    /\ \E o \in DriverOutcomes \ {Outcome("raise", "NotSupportedError", FALSE)} :
          calls' = Append(calls, Called("get_cursor", o))
    /\ UNCHANGED <<txnVars, pipeVars, whereVars, lookupVars, joinVars, subqueryVars, indexVars, captureVars, poolVars, caseVars>>

ErrorsNext == Delete \/ GetCursor

SpecErrors == InitErrors /\ [][ErrorsNext]_vars

\* a duplicate-key conflict, from a single write or from a bulk write
DuplicateKey(o) ==
    IsInstance(o, "DuplicateKeyError") \/ (IsInstance(o, "BulkWriteError") /\ o.e11000)

\* C18: every driver-level failure of a wrapped operation is mapped: a
\* duplicate-key conflict reaches the caller as IntegrityError, from a single
\* write and from a bulk write alike, every other driver-level failure (a
\* bulk-write failure that is no duplicate key among them) as DatabaseError,
\* and no driver error reaches the caller as it is.
C18_DriverErrorsMapped ==
    \A i \in DOMAIN calls :
        LET c == calls[i]
        IN /\ DuplicateKey(c.driver) => c.caller.cls = "IntegrityError"
           /\ (IsInstance(c.driver, "PyMongoError") /\ ~DuplicateKey(c.driver)) =>
                 c.caller.cls = "DatabaseError"
           /\ ~IsInstance(c.caller, "PyMongoError")

(***************************************************************************)
(* Outer columns captured during a compile pass: col() and query().        *)
(***************************************************************************)
\* A Col by what its identity is made of: alias and target column. alias "":
\* None.
Col(alias, column) == [alias |-> alias, column |-> column]
\* compiler.query.alias_refcount of the subquery being compiled: its own
\* collection and a joined one are in use, one alias is no longer
alias_refcount == [inner |-> 1, joined |-> 1, unused |-> 0]
collection_name == "inner"

\* col lines 72-75: the column belongs to a parent query
IsOuter(self) ==
    self.alias # "" /\ (self.alias \notin DOMAIN alias_refcount
                          \/ alias_refcount[self.alias] = 0)

\* A slot numbering that starts at one.
Index_FromOne(self, indices) ==
    IF \E e \in indices : e.col = self
    THEN (CHOOSE e \in indices : e.col = self).index
    ELSE Cardinality(indices) + 1

\* col lines 76-80: compiler.column_indices[self], or len(column_indices) on
\* a KeyError
Index(self, indices) ==
    IF \E e \in indices : e.col = self
    THEN (CHOOSE e \in indices : e.col = self).index
    ELSE Cardinality(indices)

\* column_indices after the reference: the key is added on a KeyError
Captured(self, indices) ==
    IF \E e \in indices : e.col = self THEN indices
    ELSE indices \cup {[col |-> self, index |-> Index(self, indices)]}

\* what col returns: the parameter of an outer column, or the path of the
\* column with the alias of a joined collection and "$" when as_expr
ColMql(self, indices, ae) ==
    IF IsOuter(self)
    THEN [ref |-> "$$parent__field__", index |-> Index(self, indices), prefix |-> "",
          column |-> ""]
    ELSE LET has_alias == self.alias # "" /\ self.alias # collection_name
         IN [ref |-> IF ae THEN "$" ELSE "", index |-> -1,
             prefix |-> IF has_alias THEN self.alias ELSE "", column |-> self.column]

\* the columns a subquery may refer to
Cols ==
    {Col(a, c) : a \in {"", "inner", "joined", "unused", "outer", "outer2"},
                 c \in {"id", "name"}}

\* A subquery compiler before its first column, with the other components idle
InitCapture ==
    /\ column_indices = {}
    /\ col_refs = <<>>
    /\ let_bound = [built |-> FALSE, let |-> {}]
    /\ calls = <<>>
    /\ session = 0
    /\ in_atomic_block_mongo = FALSE
    /\ nested_atomics = 0
    /\ run_on_commit = <<>>
    /\ connection = FALSE
    /\ open_txns = {}
    /\ last_session = 0
    /\ trace = <<>>
    /\ raised = "none"
    /\ last_op = [op |-> "init", depth |-> -1, exc |-> FALSE, had_session |-> FALSE,
                  queued |-> <<>>]
    /\ began_in_NONE = FALSE
    /\ pool_closed = FALSE
    /\ peak_nested = 0
    /\ case_args = 0 /\ case_mql = 0 /\ case_done = FALSE
    /\ _connection_pools = 0 /\ pc = 0 /\ conn = 0 /\ returned = 0 /\ pool_clients = {} /\ deleted = FALSE
    /\ bundle = 0 /\ pipeline = <<>> /\ pipe_done = FALSE
    /\ node = 0 /\ as_expr = FALSE /\ lowered = 0 /\ where_done = FALSE
    /\ pred = 0 /\ path_mql = 0 /\ expr_mql = 0
    /\ join_args = 0 /\ join_out = <<>> /\ join_rows = <<>> /\ join_pos = 0
    /\ sub_args = 0 /\ sub_query = 0 /\ sub_pipe = <<>> /\ sub_docs = <<>> /\ sub_row = 0 /\ sub_pos = 0
    /\ idx_where = 0 /\ idx_mql = 0 /\ idx_done = FALSE

\* self.as_mql(compiler, connection, as_expr=ae) on a Col
ColAsMql ==
    /\ ~let_bound.built
    /\ Len(col_refs) < MaxRefs
    /\ \E self \in Cols, ae \in BOOLEAN :
          /\ column_indices' = IF IsOuter(self) THEN Captured(self, column_indices)
                               ELSE column_indices
          /\ col_refs' = Append(col_refs, [col |-> self, as_expr |-> ae,
                                           mql |-> ColMql(self, column_indices, ae)])
    /\ UNCHANGED let_bound
    /\ UNCHANGED <<txnVars, pipeVars, whereVars, lookupVars, joinVars, subqueryVars, indexVars, errorVars, poolVars, caseVars>>

\* query() lines 138-145: the let of subquery_lookup, one binding for each
\* item of column_indices
QueryLet ==
    /\ ~let_bound.built
    /\ let_bound' = [built |-> TRUE,
                     let |-> {[name |-> e.index, value |-> e.col] : e \in column_indices}]
    /\ UNCHANGED <<column_indices, col_refs>>
    /\ UNCHANGED <<txnVars, pipeVars, whereVars, lookupVars, joinVars, subqueryVars, indexVars, errorVars, poolVars, caseVars>>

CaptureNext == ColAsMql \/ QueryLet

SpecCapture == InitCapture /\ [][CaptureNext]_vars

(***************************************************************************)
(* Properties of the capture map.                                          *)
(***************************************************************************)
\* the references to outer columns, by position
OuterRefs == {i \in DOMAIN col_refs : IsOuter(col_refs[i].col)}
\* the first reference to the column referred to at i
FirstRef(i) ==
    CHOOSE j \in OuterRefs :
        /\ col_refs[j].col = col_refs[i].col
        /\ \A k \in OuterRefs : col_refs[k].col = col_refs[i].col => j <= k
\* the distinct outer columns referred to before position j
CapturedBefore(j) == {col_refs[k].col : k \in {k \in OuterRefs : k < j}}

\* C24: in a compile pass every reference to an outer column returns the slot
\* the column was given at its first reference, which is the number of
\* distinct outer columns met before; the map holds exactly the outer columns
\* referred to, each with that slot, so the slots are 0..n-1, no two columns
\* share one and none is ever changed; and let binds each slot to its column.
C24_CaptureSlots ==
    /\ \A i \in OuterRefs :
          /\ col_refs[i].mql.ref = "$$parent__field__"
          /\ col_refs[i].mql.index = Cardinality(CapturedBefore(FirstRef(i)))
          /\ [col |-> col_refs[i].col, index |-> col_refs[i].mql.index] \in column_indices
    /\ {e.col : e \in column_indices} = {col_refs[i].col : i \in OuterRefs}
    /\ {e.index : e \in column_indices} = 0..(Cardinality(column_indices) - 1)
    /\ \A e1, e2 \in column_indices : (e1.col = e2.col) <=> (e1.index = e2.index)
    /\ let_bound.built =>
          let_bound.let = {[name |-> e.index, value |-> e.col] : e \in column_indices}

\* C24 witness: outer.id, outer.name and outer.id again: slots 0, 1 and 0,
\* two columns captured and bound.
C24_Witness ==
    /\ let_bound.built /\ Len(col_refs) = 3
    /\ col_refs[1].col = Col("outer", "id") /\ col_refs[1].mql.index = 0
    /\ col_refs[2].col = Col("outer", "name") /\ col_refs[2].mql.index = 1
    /\ col_refs[3].col = Col("outer", "id") /\ col_refs[3].mql.index = 0
    /\ Cardinality(column_indices) = 2
    /\ Cardinality(let_bound.let) = 2

(***************************************************************************)
(* The shared pool of clients: get_new_connection and close_pool, run by   *)
(* several threads on the connection of one alias.                         *)
(***************************************************************************)
Threads == 1..MaxThreads
\* no entry for the alias; no client
NoClient == 0
\* what a thread has in hand when the lookup of the alias raises
KeyError == -1

\* A registration that overwrites the entry.
setdefault_Overwrite(pools, client) == client

\* dict.setdefault(self.alias, conn): the entry after the call
setdefault(pools, client) == IF pools = NoClient THEN client ELSE pools

\* No thread has asked yet, with the other components idle
InitPool ==
    /\ _connection_pools = NoClient
    /\ pc = [t \in Threads |-> "check"]
    /\ conn = [t \in Threads |-> NoClient]
    /\ returned = [t \in Threads |-> NoClient]
    /\ pool_clients = {}
    /\ deleted = FALSE
    /\ calls = <<>>
    /\ session = 0
    /\ in_atomic_block_mongo = FALSE
    /\ nested_atomics = 0
    /\ run_on_commit = <<>>
    /\ connection = FALSE
    /\ open_txns = {}
    /\ last_session = 0
    /\ trace = <<>>
    /\ raised = "none"
    /\ last_op = [op |-> "init", depth |-> -1, exc |-> FALSE, had_session |-> FALSE,
                  queued |-> <<>>]
    /\ began_in_NONE = FALSE
    /\ pool_closed = FALSE
    /\ peak_nested = 0
    /\ case_args = 0 /\ case_mql = 0 /\ case_done = FALSE
    /\ column_indices = {} /\ col_refs = <<>> /\ let_bound = 0
    /\ bundle = 0 /\ pipeline = <<>> /\ pipe_done = FALSE
    /\ node = 0 /\ as_expr = FALSE /\ lowered = 0 /\ where_done = FALSE
    /\ pred = 0 /\ path_mql = 0 /\ expr_mql = 0
    /\ join_args = 0 /\ join_out = <<>> /\ join_rows = <<>> /\ join_pos = 0
    /\ sub_args = 0 /\ sub_query = 0 /\ sub_pipe = <<>> /\ sub_docs = <<>> /\ sub_row = 0 /\ sub_pos = 0
    /\ idx_where = 0 /\ idx_mql = 0 /\ idx_done = FALSE

\* get_new_connection line 274: if self.alias not in self._connection_pools
CheckAlias ==
    \E t \in Threads :
    /\ pc[t] = "check"
    /\ pc' = [pc EXCEPT ![t] = IF _connection_pools = NoClient THEN "create" ELSE "return"]
    /\ UNCHANGED <<_connection_pools, conn, returned, pool_clients, deleted>>
    /\ UNCHANGED <<txnVars, pipeVars, whereVars, lookupVars, joinVars, subqueryVars, indexVars, errorVars, captureVars, caseVars>>

\* line 275: conn = MongoClient(...); the client is named after its thread
CreateClient ==
    \E t \in Threads :
    /\ pc[t] = "create"
    /\ conn' = [conn EXCEPT ![t] = t]
    /\ pc' = [pc EXCEPT ![t] = "setdefault"]
    /\ UNCHANGED <<_connection_pools, returned, pool_clients, deleted>>
    /\ UNCHANGED <<txnVars, pipeVars, whereVars, lookupVars, joinVars, subqueryVars, indexVars, errorVars, captureVars, caseVars>>

\* line 278: self._connection_pools.setdefault(self.alias, conn)
SetDefault ==
    \E t \in Threads :
    /\ pc[t] = "setdefault"
    /\ _connection_pools' = setdefault(_connection_pools, conn[t])
    /\ pool_clients' = pool_clients \cup {_connection_pools'}
    /\ pc' = [pc EXCEPT ![t] = "return"]
    /\ UNCHANGED <<conn, returned, deleted>>
    /\ UNCHANGED <<txnVars, pipeVars, whereVars, lookupVars, joinVars, subqueryVars, indexVars, errorVars, captureVars, caseVars>>

\* line 279: return self._connection_pools[self.alias]
ReturnClient ==
    \E t \in Threads :
    /\ pc[t] = "return"
    /\ returned' = [returned EXCEPT
                       ![t] = IF _connection_pools = NoClient THEN KeyError
                              ELSE _connection_pools]
    /\ pc' = [pc EXCEPT ![t] = "done"]
    /\ UNCHANGED <<_connection_pools, conn, pool_clients, deleted>>
    /\ UNCHANGED <<txnVars, pipeVars, whereVars, lookupVars, joinVars, subqueryVars, indexVars, errorVars, captureVars, caseVars>>

\* close_pool on the connection of a thread that holds a client: the entry
\* of the alias is deleted (a KeyError when another thread deleted it)
ClosePoolEntry ==
    \E t \in Threads :
    /\ pc[t] = "done" /\ returned[t] # KeyError
    /\ _connection_pools' = NoClient
    /\ deleted' = TRUE
    /\ returned' = [returned EXCEPT
                       ![t] = IF _connection_pools = NoClient THEN KeyError ELSE NoClient]
    /\ pc' = [pc EXCEPT ![t] = "closed"]
    /\ UNCHANGED <<conn, pool_clients>>
    /\ UNCHANGED <<txnVars, pipeVars, whereVars, lookupVars, joinVars, subqueryVars, indexVars, errorVars, captureVars, caseVars>>

PoolNext ==
    CheckAlias \/ CreateClient \/ SetDefault \/ ReturnClient \/ ClosePoolEntry

SpecPool == InitPool /\ [][PoolNext]_vars

(***************************************************************************)
(* Properties of the shared pool.                                          *)
(***************************************************************************)
\* C27: as long as no close_pool has deleted the entry, whatever the
\* interleaving of the get_new_connection calls, at most one client was ever
\* registered for the alias, and every call that has returned returned that
\* client, also when several threads found the alias absent and each created
\* a client of its own.
C27_OneClientPerAlias ==
    ~deleted =>
        /\ Cardinality(pool_clients) <= 1
        /\ \A t \in Threads :
              pc[t] = "done" =>
                  /\ returned[t] # KeyError /\ returned[t] # NoClient
                  /\ returned[t] = _connection_pools
                  /\ pool_clients = {returned[t]}

\* C27 witness: threads 1 and 2 both found the alias absent and both created
\* a client; thread 2 registered first, and both calls returned its client.
C27_Witness ==
    /\ ~deleted
    /\ pc[1] = "done" /\ pc[2] = "done"
    /\ conn[1] = 1 /\ conn[2] = 2
    /\ pool_clients = {2}
    /\ returned[1] = 2 /\ returned[2] = 2

(***************************************************************************)
(* The Case expression: case() of expressions/builtins.py.                 *)
(***************************************************************************)
\* what compiling the condition of a When gives: one of the two signals, or
\* the document of a condition that is not static
Conditions ==
    {Raise("EmptyResultSet"), Raise("FullResultSet"),
     Mql(F("condition", 1, <<>>)), Mql(F("condition", 2, <<>>))}
\* the i-th When of a Case: its result is Value(i)
When(condition, i) == [condition |-> condition, result |-> i]
\* the Case expressions compiled: the default is Value(0)
RECURSIVE CasesOf(_)
CasesOf(n) ==
    IF n = 0 THEN {<<>>}
    ELSE {Append(cs, When(c, n)) : cs \in CasesOf(n - 1), c \in Conditions}
CaseExpressions ==
    {[cases |-> cs, default |-> 0] : cs \in UNION {CasesOf(n) : n \in 0..MaxCases}}

\* when(): the condition compiled as an expression
when(self) == self.condition

\* the for loop of case(): case_parts, and default_mql as the break or the
\* else clause sets it
RECURSIVE CaseLoop(_, _, _)
CaseLoop(cases, case_parts, default) ==
    IF cases = <<>>
    THEN [case_parts |-> case_parts, default_mql |-> Literal(default)]
    ELSE LET c == when(Head(cases))
         IN IF c.sig = "EmptyResultSet"
            THEN CaseLoop(Tail(cases), case_parts, default)
            ELSE IF c.sig = "FullResultSet"
            THEN [case_parts |-> case_parts,
                  default_mql |-> Literal(Head(cases).result)]
            ELSE CaseLoop(Tail(cases),
                          Append(case_parts,
                                 [case |-> c.mql, then |-> Literal(Head(cases).result)]),
                          default)

\* A case() whose default is always the declared one.
case_DeclaredDefault(self) ==
    LET r == CaseLoop(self.cases, <<>>, self.default)
    IN IF r.case_parts = <<>> THEN Literal(self.default)
       ELSE [op |-> "$switch", branches |-> r.case_parts,
             default |-> Literal(self.default)]

\* case()
case(self) ==
    LET r == CaseLoop(self.cases, <<>>, self.default)
    IN IF r.case_parts = <<>> THEN r.default_mql
       ELSE [op |-> "$switch", branches |-> r.case_parts, default |-> r.default_mql]

\* A Case expression waiting to be compiled, with the other components idle
InitCase ==
    /\ case_args \in CaseExpressions
    /\ case_mql = 0
    /\ case_done = FALSE
    /\ calls = <<>>
    /\ session = 0
    /\ in_atomic_block_mongo = FALSE
    /\ nested_atomics = 0
    /\ run_on_commit = <<>>
    /\ connection = FALSE
    /\ open_txns = {}
    /\ last_session = 0
    /\ trace = <<>>
    /\ raised = "none"
    /\ last_op = [op |-> "init", depth |-> -1, exc |-> FALSE, had_session |-> FALSE,
                  queued |-> <<>>]
    /\ began_in_NONE = FALSE
    /\ pool_closed = FALSE
    /\ peak_nested = 0
    /\ _connection_pools = 0 /\ pc = 0 /\ conn = 0 /\ returned = 0 /\ pool_clients = {} /\ deleted = FALSE
    /\ column_indices = {} /\ col_refs = <<>> /\ let_bound = 0
    /\ bundle = 0 /\ pipeline = <<>> /\ pipe_done = FALSE
    /\ node = 0 /\ as_expr = FALSE /\ lowered = 0 /\ where_done = FALSE
    /\ pred = 0 /\ path_mql = 0 /\ expr_mql = 0
    /\ join_args = 0 /\ join_out = <<>> /\ join_rows = <<>> /\ join_pos = 0
    /\ sub_args = 0 /\ sub_query = 0 /\ sub_pipe = <<>> /\ sub_docs = <<>> /\ sub_row = 0 /\ sub_pos = 0
    /\ idx_where = 0 /\ idx_mql = 0 /\ idx_done = FALSE

\* Case.as_mql(as_expr=True)
CaseAsMql ==
    /\ ~case_done
    /\ case_mql' = case(case_args)
    /\ case_done' = TRUE
    /\ UNCHANGED case_args
    /\ UNCHANGED <<txnVars, pipeVars, whereVars, lookupVars, joinVars, subqueryVars, indexVars, errorVars, captureVars, poolVars>>

CaseNext == CaseAsMql

SpecCase == InitCase /\ [][CaseNext]_vars

(***************************************************************************)
(* Properties of the Case expression.                                      *)
(***************************************************************************)
\* the truth of the conditions that are not static, on one document
Truths == [{1, 2} -> BOOLEAN]
\* whether a condition holds: a static one whatever the document
Holds(condition, truth) ==
    IF condition.sig = "FullResultSet" THEN TRUE
    ELSE IF condition.sig = "EmptyResultSet" THEN FALSE
    ELSE truth[condition.mql.id]
\* CASE WHEN ... THEN ... ELSE ... END: the result of the first When whose
\* condition holds, else the default
RECURSIVE FirstMatch(_, _, _)
FirstMatch(cases, default, truth) ==
    IF cases = <<>> THEN default
    ELSE IF Holds(Head(cases).condition, truth) THEN Head(cases).result
         ELSE FirstMatch(Tail(cases), default, truth)
\* $switch: the then of the first branch whose case is true, else default
RECURSIVE Switch(_, _, _)
Switch(branches, default, truth) ==
    IF branches = <<>> THEN default.id
    ELSE IF truth[Head(branches).case.id] THEN Head(branches).then.id
         ELSE Switch(Tail(branches), default, truth)
\* the value of what case() returned
Evaluate(mql, truth) ==
    IF mql.op = "$switch" THEN Switch(mql.branches, mql.default, truth)
    ELSE mql.id
\* the position of the first When whose condition is ALWAYS-TRUE (0: none)
FirstAlwaysTrue(cases) ==
    LET at == {i \in DOMAIN cases : cases[i].condition.sig = "FullResultSet"}
    IN IF at = {} THEN 0 ELSE CHOOSE i \in at : \A j \in at : i <= j
\* the Whens before it
Considered(cases) ==
    IF FirstAlwaysTrue(cases) = 0 THEN cases
    ELSE SubSeq(cases, 1, FirstAlwaysTrue(cases) - 1)
\* those of them whose condition is not static
Undecided(cases) == SelectSeq(Considered(cases), LAMBDA w : w.condition.sig = "mql")

\* C30: case() gives first-match evaluation. On every document the compiled
\* expression has the value of the first When whose condition holds, else
\* the default. A When whose condition is ALWAYS-FALSE is in no branch; the
\* first When whose condition is ALWAYS-TRUE gives the default, and the Whens
\* after it and the declared default are not in the result; the Whens before
\* it that are not static are the branches of the $switch, in their order;
\* with none of those the default is returned as it is, without a $switch.
C30_CaseFirstMatch ==
    case_done =>
        LET cases == case_args.cases
            undecided == Undecided(cases)
            default == IF FirstAlwaysTrue(cases) = 0 THEN case_args.default
                       ELSE cases[FirstAlwaysTrue(cases)].result
        IN /\ \A truth \in Truths :
                 Evaluate(case_mql, truth) = FirstMatch(cases, case_args.default, truth)
           /\ undecided = <<>> => case_mql = Literal(default)
           /\ undecided # <<>> =>
                 /\ case_mql.op = "$switch"
                 /\ case_mql.default = Literal(default)
                 /\ Len(case_mql.branches) = Len(undecided)
                 /\ \A i \in DOMAIN undecided :
                       /\ case_mql.branches[i].case = undecided[i].condition.mql
                       /\ case_mql.branches[i].then = Literal(undecided[i].result)

\* C30 witness: WHEN c1 THEN 1 WHEN <always false> THEN 2 WHEN <always true>
\* THEN 3 WHEN c2 THEN 4 ELSE 0 compiled to a $switch of the one branch
\* c1 -> 1 with default 3.
C30_Witness ==
    /\ case_done /\ Len(case_args.cases) = 4
    /\ case_args.cases[1].condition = Mql(F("condition", 1, <<>>))
    /\ case_args.cases[2].condition = Raise("EmptyResultSet")
    /\ case_args.cases[3].condition = Raise("FullResultSet")
    /\ case_args.cases[4].condition = Mql(F("condition", 2, <<>>))
    /\ case_mql = [op |-> "$switch",
                   branches |-> <<[case |-> F("condition", 1, <<>>), then |-> Literal(1)]>>,
                   default |-> Literal(3)]

====
